---------------------------- MODULE Spec2Model ----------------------------
(***************************************************************************)
(* Model of the StaRosaAM dashboard back end:                              *)
(*   - consultar_magic_loops (src/api.py), the retrying remote client;     *)
(*   - cargar_datos (src/cargar.py), the Excel -> SQLite loader;           *)
(*   - limpiar_columnas_numericas (src/app.py), the numeric cleaner;       *)
(*   - calcular_variaciones_seguras (src/app.py), the YoY/MoM/QoQ columns; *)
(*   - the monthly comparison per brand and the year-over-year comparison  *)
(*     of the page "Comparativos Temporales" (src/app.py);                 *)
(*   - the totals per brand, the ten largest and the Chinese competitors   *)
(*     of the pages "Resumen General" and "Highlights" (src/app.py);       *)
(*   - the date and brand filters of two pages (src/app.py);               *)
(*   - the script run after run: cargar_datos, verificar_base_y_tablas     *)
(*     and the two descargar_db (src/app.py).                              *)
(* Each component has its own specification (SpecApi, SpecCarga,           *)
(* SpecLimpiar, SpecVariaciones, SpecMoM, SpecYoY, SpecReevaluacion,       *)
(* SpecMarcas, SpecFiltros, SpecArranque) over the same variables; the     *)
(* variables of the components that a specification does not run keep      *)
(* their initial value.                                                    *)
(***************************************************************************)
EXTENDS Integers, Sequences, FiniteSets, TLC

VARIABLES
    \* ---- consultar_magic_loops (src/api.py) ----
    pc,          \* position in the call: "inicio", "intentar", "fin", "excepcion"
    datos,       \* argument datos
    pregunta,    \* argument pregunta
    https,       \* TRUE iff API_URL has the https:// scheme (the mounted adapter applies)
    payload,     \* local payload (a dict: key -> value)
    intento,     \* loop variable of `for intento in range(MAX_RETRIES)`
    posts,       \* number of session.post calls issued so far
    conexiones,  \* number of connection attempts made by the transport adapter
    esperas,     \* sequence of the time.sleep arguments so far
    ultimo,      \* how the latest session.post ended
    resultado,   \* value returned to the caller
    \* ---- cargar_datos (src/cargar.py) ----
    cpc,         \* position in cargar_datos
    archivos,    \* the two Excel sources as found on disk
    df_import,   \* local DataFrame df_import
    df_matric,   \* local DataFrame df_matric
    db,          \* automotor.db: table name -> table
    retorno,     \* value returned by cargar_datos
    corrida,     \* which run of cargar.py this is: 1 for the first
    db_antes,    \* automotor.db as it was when this run started
    previa,      \* the sources and the return value of the run before this one
    na_como_texto, \* the installed pandas: does astype(str) turn a missing value into text
    \* ---- limpiar_columnas_numericas (src/app.py) ----
    lpc,         \* position in limpiar_columnas_numericas
    lcol,        \* index in columnas of the column the for loop is at
    df,          \* argument df
    columnas,    \* argument columnas
    df_clean,    \* the returned DataFrame
    \* ---- calcular_variaciones_seguras (src/app.py) ----
    vpc,         \* position in crear_graficos_variaciones
    graficos,    \* the data plotted by fig_yoy, fig_mom and fig_qoq
    df_comp,     \* argument df: the monthly comparison frame
    fill_method, \* default fill_method of Series.pct_change in the installed pandas
    df_var,      \* local df_var
    df_ret,      \* the DataFrame returned to crear_graficos_variaciones
    \* ---- monthly comparison per brand (src/app.py, lines 730-776) ----
    mpc,          \* position in the section
    imp_filtrado, \* the imports table after the page filters
    mat_filtrado, \* the registrations table after the page filters
    imp_mensual,  \* local imp_mensual
    mat_mensual,  \* local mat_mensual
    imp_agg,      \* local imp_agg
    mat_agg,      \* local mat_agg
    \* ---- year-over-year comparison (src/app.py, lines 839-972) ----
    ypc,                   \* position in the section
    importaciones,         \* the imports table as loaded
    matriculaciones,       \* the registrations table as loaded
    imp_yoy_df,            \* local imp_yoy_df
    mat_yoy_df,            \* local mat_yoy_df
    anio_seleccionado_yoy, \* año_seleccionado_yoy
    mes_seleccionado_yoy,  \* mes_seleccionado_yoy
    imp_yoy_agg,           \* local imp_yoy_agg
    mat_yoy_agg,           \* local mat_yoy_agg
    imp_comparacion,       \* combinar_datos_actual_anterior(..., 'imp')
    mat_comparacion,       \* combinar_datos_actual_anterior(..., 'mat')
    top_marcas_grafico,    \* local top_marcas_grafico
    orden_de_hash,         \* the order in which this server process iterates a set of brands
    evaluacion_previa,     \* what the evaluation before this one produced
    \* ---- totals per brand (src/app.py, lines 346-347 and 1395-1456) ----
    tpc,                   \* position in the section
    datos_imp,             \* the filtered imports table
    desempate,             \* how the installed sort orders equal totals
    imp_por_marca,         \* groupby('Marca')[...].sum().sort_values(ascending=False).head(10)
    comp_chinos_imp,       \* local comp_chinos_imp
    participacion_chinos_imp, \* market_metrics["participacion_chinos_imp"], in hundredths
    imp_por_marca_previo,  \* imp_por_marca of the evaluation before the rows were reordered
    \* ---- the date and brand filters (src/app.py, lines 472-495 and 593-670) ----
    fpc,                   \* position: which of the two pages has filtered
    imp_tabla,             \* importaciones as loaded
    rango_fechas,          \* the selected dates: fecha_inicio and fecha_fin
    marcas_seleccionadas,  \* the selected brands
    imp_filtrado_resumen,  \* imp_filtrado of the page Resumen General
    imp_filtrado_comparativos, \* imp_filtrado of the page Comparativos Temporales
    \* ---- one run of the dashboard script after another (src/app.py) ----
    apc,                   \* position of the run in the script
    automotor_db,          \* the file automotor.db: absent, or what it holds
    cache,                 \* has st.cache_data a result of cargar_datos
    cargadas,              \* has this run importaciones and matriculaciones
    secretos,              \* does st.secrets hold DROPBOX_DB_URL
    respuesta,             \* what requests.get(DROPBOX_URL) meets in this run
    eventos,               \* this run's accesses: "abrir" the database, "descargar" it
    inicio_sin_archivo,    \* did this run start with no automotor.db
    ejecuciones            \* runs of the script so far

varsApi == <<pc, datos, pregunta, https, payload, intento, posts, conexiones,
             esperas, ultimo, resultado>>
varsCarga == <<cpc, archivos, df_import, df_matric, db, retorno,
               corrida, db_antes, previa, na_como_texto>>
varsLimpiar == <<lpc, lcol, df, columnas, df_clean>>
varsVariaciones == <<vpc, df_comp, fill_method, df_var, df_ret, graficos>>
varsMoM == <<mpc, imp_filtrado, mat_filtrado, imp_mensual, mat_mensual, imp_agg, mat_agg>>
varsYoY == <<ypc, importaciones, matriculaciones, imp_yoy_df, mat_yoy_df,
             anio_seleccionado_yoy, mes_seleccionado_yoy, imp_yoy_agg, mat_yoy_agg,
             imp_comparacion, mat_comparacion, top_marcas_grafico, orden_de_hash,
             evaluacion_previa>>
varsMarcas == <<tpc, datos_imp, desempate, imp_por_marca, comp_chinos_imp,
               participacion_chinos_imp, imp_por_marca_previo>>
varsFiltros == <<fpc, imp_tabla, rango_fechas, marcas_seleccionadas,
                imp_filtrado_resumen, imp_filtrado_comparativos>>
varsArranque == <<apc, automotor_db, cache, cargadas, secretos, respuesta, eventos,
                 inicio_sin_archivo, ejecuciones>>
varsPaginas == <<varsMarcas, varsFiltros, varsArranque>>
varsTablero == <<varsVariaciones, varsMoM, varsYoY, varsPaginas>>
vars == <<varsApi, varsCarga, varsLimpiar, varsTablero>>

-----------------------------------------------------------------------------
(* Bounds of the model *)

\* longest question string explored
MaxLenPregunta == 2

-----------------------------------------------------------------------------
(* src/api.py: configuration *)

MAX_PAYLOAD_SIZE == 500000
\* one attempt too many
MAX_RETRIES_Mut == 3 + 1
MAX_RETRIES == 3
\* HTTPAdapter(max_retries=3), mounted on 'https://' only
ADAPTER_MAX_RETRIES == 3

\* Python None
None == [nulo |-> TRUE, s |-> <<>>]
Str(s) == [nulo |-> FALSE, s |-> s]

\* characters of the question strings: a blank and a letter
Blancos == {" "}
Caracteres == {" ", "a"}

RECURSIVE Cadenas(_)
Cadenas(n) ==
    IF n = 0 THEN {<<>>}
    ELSE Cadenas(n - 1) \cup
         {Append(s, c) : s \in {t \in Cadenas(n - 1) : Len(t) = n - 1}, c \in Caracteres}

RECURSIVE LStrip(_)
LStrip(s) ==
    IF s = <<>> THEN s
    ELSE IF Head(s) \in Blancos THEN LStrip(Tail(s)) ELSE s

RECURSIVE RStrip(_)
RStrip(s) ==
    IF s = <<>> THEN s
    ELSE IF s[Len(s)] \in Blancos THEN RStrip(SubSeq(s, 1, Len(s) - 1)) ELSE s

\* str.strip()
Strip(s) == RStrip(LStrip(s))

\* line 26: `pregunta and pregunta.strip()` as a condition
AdjuntaPregunta(p) == ~p.nulo /\ p.s # <<>> /\ Strip(p.s) # <<>>

\* values held by a dict: an opaque JSON value of a known serialized length,
\* or a string
Blob(n) == [t |-> "blob", tam |-> n, s |-> <<>>]
Cadena(s) == [t |-> "str", tam |-> 0, s |-> s]

\* value already stored under "pregunta" in a datos dict that brings one
PreguntaPrevia == Cadena(<<"x">>)

\* datos as the dict it is (or, when it is no dict, the value itself)
DictDe(d) ==
    IF d.previa
    THEN [k \in {"datos", "pregunta"} |->
            IF k = "datos" THEN Blob(d.tam) ELSE PreguntaPrevia]
    ELSE [k \in {"datos"} |-> Blob(d.tam)]

\* line 25: datos.copy() if isinstance(datos, dict) else {"data": datos}
PayloadBase(d) ==
    IF d.tipo = "dict" THEN DictDe(d)
    ELSE [k \in {"data"} |-> Blob(d.tam)]

\* payload["pregunta"] = v
ConClave(p, k, v) ==
    [x \in DOMAIN p \cup {k} |-> IF x = k THEN v ELSE p[x]]

\* the question attached as typed, not trimmed
PrepararSinStrip(d, p) ==
    IF AdjuntaPregunta(p)
    THEN ConClave(PayloadBase(d), "pregunta", Cadena(p.s))
    ELSE PayloadBase(d)
\* lines 25-27
Preparar(d, p) ==
    IF AdjuntaPregunta(p)
    THEN ConClave(PayloadBase(d), "pregunta", Cadena(Strip(p.s)))
    ELSE PayloadBase(d)

\* len(json.dumps(v)) of a value: a string is quoted
TamValor(v) == IF v.t = "str" THEN Len(v.s) + 2 ELSE v.tam

RECURSIVE SumaClaves(_, _)
SumaClaves(p, ks) ==
    IF ks = {} THEN 0
    ELSE LET k == CHOOSE x \in ks : TRUE
         IN  (Len(k) + 2) + 2 + TamValor(p[k]) + SumaClaves(p, ks \ {k})

\* len(json.dumps(payload, default=str)): braces, `"k": v` items, ", " between
TamJson(p) ==
    LET n == Cardinality(DOMAIN p)
    IN  2 + SumaClaves(p, DOMAIN p) + (IF n > 0 THEN 2 * (n - 1) ELSE 0)

\* a payload of exactly the ceiling rejected too
ExcedeMut(p) == TamJson(p) >= MAX_PAYLOAD_SIZE
\* line 30
Excede(p) == TamJson(p) > MAX_PAYLOAD_SIZE

RECURSIVE Pot2(_)
Pot2(n) == IF n = 0 THEN 1 ELSE 2 * Pot2(n - 1)

\* a linear backoff
BackoffMut(i) == 2 * (i + 1)
\* lines 52, 59, 65: time.sleep(2 ** intento)
Backoff(i) == Pot2(i)

\* line 38: for intento in range(MAX_RETRIES)
EnRango(i) == i < MAX_RETRIES

\* lines 51, 58, 64: if intento < MAX_RETRIES - 1
HayReintento(i) == i < MAX_RETRIES - 1

\* the values the function returns
Exito(doc) == [tipo |-> "ok", causa |-> "", estado |-> 0, doc |-> doc]
Error(causa, estado) == [tipo |-> "error", causa |-> causa, estado |-> estado, doc |-> ""]
SinResultado == [tipo |-> "ninguno", causa |-> "", estado |-> 0, doc |-> ""]


-----------------------------------------------------------------------------
(* src/api.py: the inputs and the outcomes of one session.post *)

\* serialized lengths of datos that put the payload around MAX_PAYLOAD_SIZE
TamDatos == {20, 499972, 499973, 499983, 499984, 499989, 499990, 600000}

\* datos: a dict (with or without its own "pregunta" key) or another value;
\* serializable = FALSE: json.dumps(payload, default=str) raises on it
\* (a dict with tuple keys, a circular structure)
DatosPosibles ==
    {[tipo |-> "dict", tam |-> n, previa |-> pv, serializable |-> TRUE] :
        n \in TamDatos, pv \in BOOLEAN}
    \cup {[tipo |-> "otro", tam |-> n, previa |-> FALSE, serializable |-> TRUE] :
            n \in TamDatos}
    \cup {[tipo |-> tp, tam |-> 20, previa |-> FALSE, serializable |-> FALSE] :
            tp \in {"dict", "otro"}}

Preguntas == {None} \cup {Str(s) : s \in Cadenas(MaxLenPregunta)}

\* HTTP status codes the endpoint answers with
Estados == {200, 201, 404, 500}

\* response bodies
Cuerpos == {"{\"insight\": 1}", "[1]", "<html>"}

\* response.json(): the parsed document, or "" when the body is no JSON
Json(c) ==
    CASE c = "{\"insight\": 1}" -> "dict(insight=1)"
      [] c = "[1]" -> "list(1)"
      [] OTHER -> ""

EsJson(c) == Json(c) # ""

\* what response.json() raises on a body that is no JSON: requests >= 2.27
\* raises requests.exceptions.JSONDecodeError (a RequestException), older
\* releases let the decoder's ValueError through
ErroresJson == {"JSONDecodeError", "ValueError"}

\* what session.post raises: the two timeouts, a transport failure, and an
\* error that is no RequestException (TypeError while encoding the json= body)
ErroresTimeout == {"ReadTimeout", "ConnectTimeout"}
ErroresTransporte == {"ConnectionError"}
ErroresAjenos == {"TypeError"}

\* the exception classes below requests.exceptions.Timeout and below
\* requests.exceptions.RequestException
SubclasesTimeout == {"ReadTimeout", "ConnectTimeout"}
SubclasesRequestException ==
    SubclasesTimeout \cup {"ConnectionError", "JSONDecodeError"}

\* the RequestException clause tried before the Timeout clause
ClausulaMut(e) ==
    IF e \in SubclasesRequestException THEN "RequestException"
    ELSE IF e \in SubclasesTimeout THEN "Timeout"
    ELSE "Exception"
\* lines 57, 63, 69: the first except clause that matches the exception
Clausula(e) ==
    IF e \in SubclasesTimeout THEN "Timeout"
    ELSE IF e \in SubclasesRequestException THEN "RequestException"
    ELSE "Exception"

\* line 47: response.status_code == 200
EsExito(s) == s = 200

\* every branch retrying, `except Exception` included
ReintentaMut(clausula) == TRUE
\* the branches that sleep and continue: the non-200 branch (lines 50-55) and
\* the Timeout and RequestException clauses (57-67); `except Exception`
\* (69-70) returns at once
Reintenta(clausula) == clausula \in {"http", "Timeout", "RequestException"}

\* the error value each branch returns (lines 55, 61, 67, 70)
ErrorDe(clausula, estado) ==
    CASE clausula = "http" -> Error("http", estado)
      [] clausula = "Timeout" -> Error("timeout", 0)
      [] clausula = "RequestException" -> Error("conexion", 0)
      [] OTHER -> Error("inesperado", 0)

SinIntento == [estado |-> 0, cuerpo |-> "", excepcion |-> ""]

\* connection attempts one session.post may make: the adapter mounted on
\* 'https://' retries a failed connection up to max_retries times
MaxConexionesPorPost == 1 + (IF https THEN ADAPTER_MAX_RETRIES ELSE 0)

InerteApi ==
    /\ pc = "inactivo" /\ datos = [tipo |-> "dict", tam |-> 20, previa |-> FALSE, serializable |-> TRUE]
    /\ pregunta = None /\ https = FALSE /\ payload = <<>> /\ intento = 0
    /\ posts = 0 /\ conexiones = 0 /\ esperas = <<>> /\ ultimo = SinIntento
    /\ resultado = SinResultado

-----------------------------------------------------------------------------
(* src/api.py: consultar_magic_loops *)

\* lines 24-35: build the payload, validate its size, configure the session
PrepararYValidar ==
    /\ pc = "inicio"
    /\ payload' = Preparar(datos, pregunta)
    /\ IF ~datos.serializable
       THEN \* json.dumps raises at line 30, outside the try
            /\ pc' = "excepcion"
            /\ UNCHANGED resultado
       ELSE IF Excede(Preparar(datos, pregunta))
       THEN /\ pc' = "fin"
            /\ resultado' = Error("grande", 0)
       ELSE /\ pc' = "intentar"
            /\ UNCHANGED resultado
    /\ intento' = 0
    /\ UNCHANGED <<datos, pregunta, https, posts, conexiones, esperas, ultimo>>
    /\ UNCHANGED <<varsCarga, varsLimpiar, varsTablero>>

\* one session.post is issued (line 40)
Post(u) ==
    /\ pc = "intentar"
    /\ EnRango(intento)
    /\ posts' = posts + 1
    /\ \E k \in 1..MaxConexionesPorPost : conexiones' = conexiones + k
    /\ ultimo' = u
    /\ UNCHANGED <<datos, pregunta, https, payload>>
    /\ UNCHANGED <<varsCarga, varsLimpiar, varsTablero>>

\* a branch that returns at once
Devolver(r) ==
    /\ resultado' = r
    /\ pc' = "fin"
    /\ UNCHANGED <<intento, esperas>>

\* lines 51-55, 58-61, 64-67, 69-70: sleep and continue unless this branch
\* does not retry or this was the last attempt; `continue` advances the for
\* loop, whose exhaustion falls to line 72
Manejar(clausula, estado) ==
    IF Reintenta(clausula) /\ HayReintento(intento)
    THEN /\ esperas' = Append(esperas, Backoff(intento))
         /\ intento' = intento + 1
         /\ IF EnRango(intento + 1)
            THEN pc' = "intentar" /\ UNCHANGED resultado
            ELSE pc' = "fin" /\ resultado' = Error("agotado", 0)
    ELSE Devolver(ErrorDe(clausula, estado))

\* lines 47-48: HTTP 200 with a body that parses
RespuestaOk ==
    \E s \in {x \in Estados : EsExito(x)}, c \in {x \in Cuerpos : EsJson(x)} :
        /\ Post([estado |-> s, cuerpo |-> c, excepcion |-> ""])
        /\ Devolver(Exito(Json(c)))

\* lines 47-48, then the except clauses: HTTP 200 with a body that is no JSON
RespuestaMalformada ==
    \E s \in {x \in Estados : EsExito(x)}, c \in {x \in Cuerpos : ~EsJson(x)},
       e \in ErroresJson :
        /\ Post([estado |-> s, cuerpo |-> c, excepcion |-> e])
        /\ Manejar(Clausula(e), s)

\* lines 47-55: any other status
RespuestaNo200 ==
    \E s \in {x \in Estados : ~EsExito(x)} :
        /\ Post([estado |-> s, cuerpo |-> "", excepcion |-> ""])
        /\ Manejar("http", s)

\* lines 57-61: requests.exceptions.Timeout
PostTimeout ==
    \E e \in ErroresTimeout :
        /\ Post([estado |-> 0, cuerpo |-> "", excepcion |-> e])
        /\ Manejar(Clausula(e), 0)

\* lines 63-67: any other requests.exceptions.RequestException
PostErrorConexion ==
    \E e \in ErroresTransporte :
        /\ Post([estado |-> 0, cuerpo |-> "", excepcion |-> e])
        /\ Manejar(Clausula(e), 0)

\* lines 69-70: any other exception raised inside the try
PostExcepcion ==
    \E e \in ErroresAjenos :
        /\ Post([estado |-> 0, cuerpo |-> "", excepcion |-> e])
        /\ Manejar(Clausula(e), 0)

consultar_magic_loops ==
    \/ PrepararYValidar
    \/ RespuestaOk
    \/ RespuestaMalformada
    \/ RespuestaNo200
    \/ PostTimeout
    \/ PostErrorConexion
    \/ PostExcepcion

-----------------------------------------------------------------------------
(* Cells, text and DataFrames (pandas), as src/cargar.py and src/app.py use them *)

\* a cell: a datetime (n = yyyymmdd), a number, a text (sequence of
\* characters), a missing value (None / NaN / NaT), or the floating NaN that
\* float("nan") builds
Fecha(n) == [t |-> "fecha", n |-> n, s |-> <<>>]
Num(n) == [t |-> "num", n |-> n, s |-> <<>>]
Txt(s) == [t |-> "str", n |-> 0, s |-> s]
Nulo == [t |-> "nulo", n |-> 0, s |-> <<>>]
NaN == [t |-> "nan", n |-> 0, s |-> <<>>]

Digitos == <<"0", "1", "2", "3", "4", "5", "6", "7", "8", "9">>
Minusculas == <<"a", "b", "c", "d", "e", "f", "g", "h", "i", "j", "k", "l", "m",
                "n", "o", "p", "q", "r", "s", "t", "u", "v", "w", "x", "y", "z">>
Mayusculas == <<"A", "B", "C", "D", "E", "F", "G", "H", "I", "J", "K", "L", "M",
                "N", "O", "P", "Q", "R", "S", "T", "U", "V", "W", "X", "Y", "Z">>

EnSeq(c, q) == \E i \in 1..Len(q) : q[i] = c
Pos(c, q) == CHOOSE i \in 1..Len(q) : q[i] = c

EsDigito(c) == EnSeq(c, Digitos)
SoloDigitos(s) == s # <<>> /\ \A i \in 1..Len(s) : EsDigito(s[i])

\* int(s) of a text of digits
RECURSIVE ANumero(_)
ANumero(s) ==
    IF s = <<>> THEN 0
    ELSE 10 * ANumero(SubSeq(s, 1, Len(s) - 1)) + (Pos(s[Len(s)], Digitos) - 1)

\* str(n) of a natural number
RECURSIVE ATexto(_)
ATexto(n) ==
    IF n < 10 THEN <<Digitos[n + 1]>>
    ELSE Append(ATexto(n \div 10), Digitos[(n % 10) + 1])

\* n as two digits
Pad2(n) == IF n < 10 THEN <<"0">> \o ATexto(n) ELSE ATexto(n)

\* str.upper() and str.lower(), character by character
MayusCar(c) == IF EnSeq(c, Minusculas) THEN Mayusculas[Pos(c, Minusculas)] ELSE c
MinusCar(c) == IF EnSeq(c, Mayusculas) THEN Minusculas[Pos(c, Mayusculas)] ELSE c
Upper(s) == [i \in 1..Len(s) |-> MayusCar(s[i])]
Lower(s) == [i \in 1..Len(s) |-> MinusCar(s[i])]

\* a text that reads as a number: digits, with an optional minus sign
EsTextoNumerico(s) ==
    LET u == Strip(s)
    IN  \/ SoloDigitos(u)
        \/ (Len(u) > 1 /\ u[1] = "-" /\ SoloDigitos(Tail(u)))

NumeroDeTexto(s) ==
    LET u == Strip(s)
    IN  IF u[1] = "-" THEN 0 - ANumero(Tail(u)) ELSE ANumero(u)

\* a text that float() and pandas read as the floating NaN
EsTextoNaN(s) == Lower(Strip(s)) = <<"n", "a", "n">>

DiasDelMes(a, m) ==
    IF m \in {4, 6, 9, 11} THEN 30
    ELSE IF m = 2 THEN (IF a % 4 = 0 /\ (a % 100 # 0 \/ a % 400 = 0) THEN 29 ELSE 28)
    ELSE 31

\* a text of the form yyyy-mm-dd naming a day of the calendar
EsTextoFecha(s) ==
    /\ Len(s) = 10
    /\ s[5] = "-" /\ s[8] = "-"
    /\ SoloDigitos(SubSeq(s, 1, 4)) /\ SoloDigitos(SubSeq(s, 6, 7)) /\ SoloDigitos(SubSeq(s, 9, 10))
    /\ LET a == ANumero(SubSeq(s, 1, 4))
           m == ANumero(SubSeq(s, 6, 7))
           d == ANumero(SubSeq(s, 9, 10))
       IN  a >= 1900 /\ m \in 1..12 /\ d \in 1..DiasDelMes(a, m)

FechaDeTexto(s) ==
    Fecha(ANumero(SubSeq(s, 1, 4)) * 10000 + ANumero(SubSeq(s, 6, 7)) * 100
          + ANumero(SubSeq(s, 9, 10)))

\* pd.to_datetime(..., errors="coerce") on one cell: NaT when it does not parse
ToDatetime(c) ==
    CASE c.t = "fecha" -> c
      [] c.t = "str" /\ EsTextoFecha(Strip(c.s)) -> FechaDeTexto(Strip(c.s))
      [] OTHER -> Nulo

\* pd.to_numeric(..., errors="coerce") on one cell: NaN when it does not parse
ToNumeric(c) ==
    CASE c.t = "num" -> c
      [] c.t = "str" /\ EsTextoNumerico(c.s) -> Num(NumeroDeTexto(c.s))
      [] OTHER -> Nulo

\* Series.fillna(v) on one cell
Fillna(c, v) == IF c.t \in {"nulo", "nan"} THEN Num(v) ELSE c

\* Series.astype(str) on one cell: a missing value becomes the text nan
AsStr(c) ==
    CASE c.t = "str" -> c.s
      [] c.t = "num" -> IF c.n < 0 THEN <<"-">> \o ATexto(0 - c.n) ELSE ATexto(c.n)
      [] c.t = "fecha" ->
            ATexto(c.n \div 10000) \o <<"-">> \o Pad2((c.n \div 100) % 100) \o <<"-">>
            \o Pad2(c.n % 100) \o <<" ", "0", "0", ":", "0", "0", ":", "0", "0">>
      [] OTHER -> <<"n", "a", "n">>

\* .dt.year, .dt.month, .dt.quarter
Anio(c) == c.n \div 10000
Mes(c) == (c.n \div 100) % 100
Trimestre(c) == ((Mes(c) - 1) \div 3) + 1

\* a DataFrame: its column names in order, and its rows, each the cells of
\* the columns in that order
DataFrame(cols, filas) == [columnas |-> cols, filas |-> filas]
DataFrameVacio == DataFrame(<<>>, <<>>)

TieneColumna(d, c) == EnSeq(c, d.columnas)

\* d[c] in row i
Celda(d, i, c) == d.filas[i][Pos(c, d.columnas)]

\* the cells of column c, row by row
Columna(d, c) == [i \in 1..Len(d.filas) |-> Celda(d, i, c)]

\* d[c] = vals: replaces the column, or appends it when it is new
ConColumna(d, c, vals) ==
    IF TieneColumna(d, c)
    THEN DataFrame(d.columnas,
            [i \in 1..Len(d.filas) |->
                [j \in 1..Len(d.columnas) |->
                    IF j = Pos(c, d.columnas) THEN vals[i] ELSE d.filas[i][j]]])
    ELSE DataFrame(Append(d.columnas, c),
            [i \in 1..Len(d.filas) |-> Append(d.filas[i], vals[i])])

\* the rows whose cell j is not missing
RECURSIVE SinNulos(_, _)
SinNulos(filas, j) ==
    IF filas = <<>> THEN <<>>
    ELSE IF Head(filas)[j].t \in {"nulo", "nan"} THEN SinNulos(Tail(filas), j)
    ELSE <<Head(filas)>> \o SinNulos(Tail(filas), j)

\* no row dropped
DropnaMut(d, c) == d
\* d.dropna(subset=[c])
Dropna(d, c) == DataFrame(d.columnas, SinNulos(d.filas, Pos(c, d.columnas)))

\* d.rename(columns={viejo: nuevo})
Rename(d, viejo, nuevo) ==
    DataFrame([j \in 1..Len(d.columnas) |->
                  IF d.columnas[j] = viejo THEN nuevo ELSE d.columnas[j]],
              d.filas)

-----------------------------------------------------------------------------
(* src/cargar.py: the inputs *)

\* rows per sheet
MaxFilas == 2

T_toyota == <<" ", "t", "o", "y", "o", "t", "a", " ">>
T_kia == <<"k", "i", "a">>
T_BYD == <<"B", "Y", "D">>
T_byd == <<"b", "y", "d", " ">>
T_blanco == <<" ", " ">>
T_fechaIso == <<"2", "0", "2", "4", "-", "1", "1", "-", "0", "5">>
T_fechaMes13 == <<"2", "0", "2", "4", "-", "1", "3", "-", "0", "5">>
T_fecha30Feb == <<"2", "0", "2", "4", "-", "0", "2", "-", "3", "0">>
T_nd == <<"n", "/", "d">>
T_12 == <<"1", "2">>
T_abc == <<"a", "b", "c">>
T_nan == <<"n", "a", "n">>

\* raw date cells that name a day, and raw date cells that do not
FechasValidas == {Fecha(20230210), Fecha(20230315), Fecha(20240101), Txt(T_fechaIso)}
FechasInvalidas == {Txt(T_nd), Txt(T_fechaMes13), Txt(T_fecha30Feb), Nulo}

\* raw amount cells that are numbers, and raw amount cells that are not
ValoresNumericos == {Num(5), Num(7), Num(3), Num(0), Txt(T_12)}
ValoresInvalidos == {Txt(T_abc), Txt(<<>>), Txt(T_nan), Nulo}

\* spreadsheet rows: <<date cell, brand cell, amount cell>>
FilasCrudas ==
    { <<Fecha(20230210), Txt(T_toyota), Num(5)>>,
      <<Txt(T_fechaIso), Txt(T_kia), Txt(T_12)>>,
      <<Txt(T_nd), Txt(T_kia), Num(7)>>,
      <<Nulo, Nulo, Num(3)>>,
      <<Fecha(20230315), Nulo, Txt(T_abc)>>,
      <<Fecha(20240101), Txt(T_BYD), Nulo>>,
      <<Fecha(20230315), Txt(T_blanco), Num(7)>>,
      <<Txt(T_fecha30Feb), Txt(T_byd), Txt(T_nan)>>,
      <<Txt(T_fechaMes13), Txt(T_BYD), Txt(<<>>)>> }

RECURSIVE Hojas(_)
Hojas(n) ==
    IF n = 0 THEN {<<>>}
    ELSE Hojas(n - 1) \cup
         {Append(h, f) : h \in {x \in Hojas(n - 1) : Len(x) = n - 1}, f \in FilasCrudas}

\* the cell a raw row has under a column name
CeldaCruda(fila, col) ==
    CASE col \in {"Fecha", "fecha"} -> fila[1]
      [] col = "Marca" -> fila[2]
      [] OTHER -> fila[3]

\* a sheet: the raw rows laid out under the sheet's column names
Hoja(cols, crudas) ==
    DataFrame(cols,
        [i \in 1..Len(crudas) |-> [j \in 1..Len(cols) |-> CeldaCruda(crudas[i], cols[j])]])

\* column layouts of the sheet IMPORT_GENERAL and of the sheet New Report
ColumnasImport == {<<"Fecha", "Marca", "Valor">>, <<"Fecha", "Marca">>, <<"Fecha", "Valor">>}
ColumnasMatric ==
    {<<"fecha", "Marca", "valor">>, <<"fecha", "Marca", "Valor">>,
     <<"fecha", "Marca", "VALOR">>, <<"fecha", "Marca">>,
     <<"fecha", "Marca", "valor", "Valor">>, <<"fecha", "Marca", "valor", "VALOR">>}

Archivo(existe, legible, hoja) == [existe |-> existe, legible |-> legible, hoja |-> hoja]

HojaImportFija == Hoja(<<"Fecha", "Marca", "Valor">>, <<<<Fecha(20230210), Txt(T_toyota), Num(5)>>>>)
HojaMatricFija == Hoja(<<"fecha", "Marca", "valor">>, <<<<Fecha(20230210), Txt(T_toyota), Num(5)>>>>)

\* the fixed sheets in workbooks that are there or not, readable or not
ArchivosPorDisponibilidad ==
    {[imp |-> Archivo(e1, l1, HojaImportFija), mat |-> Archivo(e2, l2, HojaMatricFija)] :
        e1 \in BOOLEAN, l1 \in BOOLEAN, e2 \in BOOLEAN, l2 \in BOOLEAN}

\* the two workbooks on disk: one sheet varies over all layouts and rows
\* while the other is a fixed one-row sheet, or a workbook is missing or
\* cannot be read
ArchivosPosibles ==
    {[imp |-> Archivo(TRUE, TRUE, Hoja(c, h)), mat |-> Archivo(TRUE, TRUE, HojaMatricFija)] :
        c \in ColumnasImport, h \in Hojas(MaxFilas)}
    \cup
    {[imp |-> Archivo(TRUE, TRUE, HojaImportFija), mat |-> Archivo(TRUE, TRUE, Hoja(c, h))] :
        c \in ColumnasMatric, h \in Hojas(MaxFilas)}
    \cup ArchivosPorDisponibilidad

\* automotor.db: the two tables (a DataFrame each, or NoTabla) and the indexes
NoTabla == [columnas |-> <<"(no table)">>, filas |-> <<>>]
DbVacia == [IMPORT_2019_2024 |-> NoTabla, MATRICULACION_ANUAL_ |-> NoTabla, indices |-> {}]
TablaPrevia == DataFrame(<<"Fecha", "Marca">>, <<<<Fecha(20190101), Txt(<<"F", "I", "A", "T">>)>>>>)
DbPrevia == [IMPORT_2019_2024 |-> TablaPrevia, MATRICULACION_ANUAL_ |-> TablaPrevia, indices |-> {}]

\* runs of cargar.py in a row
MaxCorridas == 2

\* no run before this one
SinPrevia ==
    [archivos |-> [imp |-> Archivo(FALSE, FALSE, DataFrameVacio),
                   mat |-> Archivo(FALSE, FALSE, DataFrameVacio)],
     retorno |-> "ninguno"]

-----------------------------------------------------------------------------
(* src/cargar.py: cargar_datos *)

\* how often a name occurs among the columns
Veces(c, cols) == Cardinality({j \in 1..Len(cols) : cols[j] = c})

\* the rows are added to the table that is there
ToSqlAppend(tabla, d) ==
    IF tabla.columnas = d.columnas THEN DataFrame(d.columnas, tabla.filas \o d.filas) ELSE d
\* d.to_sql(name, conn, if_exists="replace", index=False) on the table that
\* is there: the table is dropped and created again from d
ToSql(tabla, d) == d

\* Marca + "-" + Mes.astype(str) + "/" + Año.astype(str): a missing brand
\* makes the sum missing
Combinada(d) ==
    [i \in 1..Len(d.filas) |->
        IF Celda(d, i, "Marca").t = "str"
        THEN Txt(Celda(d, i, "Marca").s \o <<"-">> \o AsStr(Celda(d, i, "Mes"))
                 \o <<"/">> \o AsStr(Celda(d, i, "Año")))
        ELSE NaN]

\* Series.astype(str) on a brand cell: up to pandas 2 a missing value becomes
\* the text nan, from pandas 3 it stays missing
AsTypeStr(c) ==
    IF c.t \in {"nulo", "nan"} /\ ~na_como_texto THEN NaN ELSE Txt(AsStr(c))

\* lines 52, 89: .astype(str).str.strip().str.upper() on one cell
LimpiarMarca(c) ==
    LET t == AsTypeStr(c)
    IN  IF t.t = "str" THEN Txt(Upper(Strip(t.s))) ELSE t

\* the three time columns and the cleaned brand (lines 46-52, 83-89)
ConTiempoYMarca(d, fecha) ==
    LET d1 == ConColumna(d, "Año", [i \in 1..Len(d.filas) |-> Num(Anio(Celda(d, i, fecha)))])
        d2 == ConColumna(d1, "Mes", [i \in 1..Len(d.filas) |-> Num(Mes(Celda(d, i, fecha)))])
        d3 == ConColumna(d2, "Trimestre",
                 [i \in 1..Len(d.filas) |-> Num(Trimestre(Celda(d, i, fecha)))])
    IN  ConColumna(d3, "Marca",
            [i \in 1..Len(d.filas) |-> LimpiarMarca(Celda(d, i, "Marca"))])

\* lines 54-58, 91-95: the amount column, when the frame has it
ConValorNumerico(d, valor) ==
    IF TieneColumna(d, valor)
    THEN ConColumna(d, valor,
            [i \in 1..Len(d.filas) |-> Fillna(ToNumeric(Celda(d, i, valor)), 0)])
    ELSE d

\* lines 37-63: the import sheet
ProcesarImport(d) ==
    LET d1 == ConColumna(d, "Fecha",
                 [i \in 1..Len(d.filas) |-> ToDatetime(Celda(d, i, "Fecha"))])
        d2 == Dropna(d1, "Fecha")
        d3 == ConTiempoYMarca(d2, "Fecha")
        d4 == ConValorNumerico(d3, "Valor")
    IN  ConColumna(d4, "Combinada", Combinada(d4))

\* only the lower-case name is renamed
EstandarizarMut(d) ==
    IF TieneColumna(d, "valor") THEN Rename(d, "valor", "VALOR") ELSE d
\* lines 77-81: valor or Valor becomes VALOR
Estandarizar(d) ==
    IF TieneColumna(d, "valor") THEN Rename(d, "valor", "VALOR")
    ELSE IF TieneColumna(d, "Valor") THEN Rename(d, "Valor", "VALOR")
    ELSE d

\* lines 68-100: the registrations sheet
ProcesarMatric(d) ==
    LET d1 == ConColumna(d, "fecha",
                 [i \in 1..Len(d.filas) |-> ToDatetime(Celda(d, i, "fecha"))])
        d2 == Dropna(d1, "fecha")
        d3 == Estandarizar(d2)
        d4 == ConTiempoYMarca(d3, "fecha")
        d5 == ConValorNumerico(d4, "VALOR")
    IN  ConColumna(d5, "Combinada", Combinada(d5))

\* lines 137-139: any exception ends the call with False
Fallar ==
    /\ cpc' = "fin"
    /\ retorno' = "False"
    /\ UNCHANGED <<archivos, df_import, df_matric, db>>

\* lines 12-15: both workbooks must exist
VerificarArchivos ==
    /\ cpc = "inicio"
    /\ IF ~archivos.imp.existe \/ ~archivos.mat.existe
       THEN Fallar
       ELSE /\ cpc' = "leer"
            /\ UNCHANGED <<archivos, df_import, df_matric, db, retorno>>
    /\ UNCHANGED <<corrida, db_antes, previa, na_como_texto>>
    /\ UNCHANGED <<varsApi, varsLimpiar, varsTablero>>

\* lines 20-32: pd.read_excel of both sheets
LeerExcel ==
    /\ cpc = "leer"
    /\ IF ~archivos.imp.legible \/ ~archivos.mat.legible
       THEN Fallar
       ELSE /\ df_import' = archivos.imp.hoja
            /\ df_matric' = archivos.mat.hoja
            /\ cpc' = "importaciones"
            /\ UNCHANGED <<archivos, db, retorno>>
    /\ UNCHANGED <<corrida, db_antes, previa, na_como_texto>>
    /\ UNCHANGED <<varsApi, varsLimpiar, varsTablero>>

\* lines 34-63; a sheet without the column Fecha or Marca raises KeyError
ProcesarImportaciones ==
    /\ cpc = "importaciones"
    /\ IF ~TieneColumna(df_import, "Fecha") \/ ~TieneColumna(df_import, "Marca")
       THEN Fallar
       ELSE /\ df_import' = ProcesarImport(df_import)
            /\ cpc' = "matriculaciones"
            /\ UNCHANGED <<archivos, df_matric, db, retorno>>
    /\ UNCHANGED <<corrida, db_antes, previa, na_como_texto>>
    /\ UNCHANGED <<varsApi, varsLimpiar, varsTablero>>

\* lines 65-100; a sheet without the column fecha or Marca raises KeyError,
\* and one that holds VALOR twice after the renaming raises TypeError at
\* line 93, where pd.to_numeric is handed the two columns
ProcesarMatriculaciones ==
    /\ cpc = "matriculaciones"
    /\ IF \/ ~TieneColumna(df_matric, "fecha") \/ ~TieneColumna(df_matric, "Marca")
          \/ Veces("VALOR", Estandarizar(df_matric).columnas) > 1
       THEN Fallar
       ELSE /\ df_matric' = ProcesarMatric(df_matric)
            /\ cpc' = "guardar_import"
            /\ UNCHANGED <<archivos, df_import, db, retorno>>
    /\ UNCHANGED <<corrida, db_antes, previa, na_como_texto>>
    /\ UNCHANGED <<varsApi, varsLimpiar, varsTablero>>

\* lines 123-125 and 127-129
IndicesImport == {"idx_import_fecha", "idx_import_marca", "idx_import_año_mes"}
IndicesMatric == {"idx_matric_fecha", "idx_matric_marca", "idx_matric_año_mes"}

\* line 117: df_import.to_sql(..., if_exists="replace"); dropping the table
\* drops its indexes with it
GuardarImportaciones ==
    /\ cpc = "guardar_import"
    /\ db' = [db EXCEPT !.IMPORT_2019_2024 = ToSql(db.IMPORT_2019_2024, df_import),
                        !.indices = @ \ IndicesImport]
    /\ cpc' = "guardar_matric"
    /\ UNCHANGED <<archivos, df_import, df_matric, retorno>>
    /\ UNCHANGED <<corrida, db_antes, previa, na_como_texto>>
    /\ UNCHANGED <<varsApi, varsLimpiar, varsTablero>>

\* line 118: df_matric.to_sql(..., if_exists="replace")
GuardarMatriculaciones ==
    /\ cpc = "guardar_matric"
    /\ db' = [db EXCEPT !.MATRICULACION_ANUAL_ = ToSql(db.MATRICULACION_ANUAL_, df_matric),
                        !.indices = @ \ IndicesMatric]
    /\ cpc' = "indices"
    /\ UNCHANGED <<archivos, df_import, df_matric, retorno>>
    /\ UNCHANGED <<corrida, db_antes, previa, na_como_texto>>
    /\ UNCHANGED <<varsApi, varsLimpiar, varsTablero>>

\* lines 120-135: the six indexes, then return True
CrearIndices ==
    /\ cpc = "indices"
    /\ db' = [db EXCEPT !.indices = @ \cup IndicesImport \cup IndicesMatric]
    /\ cpc' = "fin"
    /\ retorno' = "True"
    /\ UNCHANGED <<archivos, df_import, df_matric>>
    /\ UNCHANGED <<corrida, db_antes, previa, na_como_texto>>
    /\ UNCHANGED <<varsApi, varsLimpiar, varsTablero>>

\* lines 114-130 raising sqlite3.Error (database locked, disk full), caught
\* at line 137
ErrorSqlite ==
    /\ cpc \in {"guardar_import", "guardar_matric", "indices"}
    /\ Fallar
    /\ UNCHANGED <<corrida, db_antes, previa, na_como_texto>>
    /\ UNCHANGED <<varsApi, varsLimpiar, varsTablero>>

\* lines 141-145: cargar.py is run again; the sheets are the same ones, and
\* a workbook may have been put in place, removed or damaged in between
Relanzar ==
    /\ cpc = "fin"
    /\ corrida < MaxCorridas
    /\ previa' = [archivos |-> archivos, retorno |-> retorno]
    /\ archivos' \in {archivos} \cup
                     (IF archivos \in ArchivosPorDisponibilidad
                      THEN ArchivosPorDisponibilidad ELSE {})
    /\ corrida' = corrida + 1
    /\ db_antes' = db
    /\ cpc' = "inicio"
    /\ df_import' = DataFrameVacio
    /\ df_matric' = DataFrameVacio
    /\ retorno' = "ninguno"
    /\ UNCHANGED <<db, na_como_texto>>
    /\ UNCHANGED <<varsApi, varsLimpiar, varsTablero>>

cargar_datos ==
    \/ Relanzar
    \/ VerificarArchivos
    \/ LeerExcel
    \/ ProcesarImportaciones
    \/ ProcesarMatriculaciones
    \/ GuardarImportaciones
    \/ GuardarMatriculaciones
    \/ CrearIndices
    \/ ErrorSqlite

-----------------------------------------------------------------------------
(* src/app.py: limpiar_columnas_numericas *)

\* cells of the columns handed to the cleaner
ValoresCrudos == ValoresNumericos \cup ValoresInvalidos \cup {Fecha(20230210)}

RECURSIVE ColumnasDeValores(_)
ColumnasDeValores(n) ==
    IF n = 0 THEN {<<>>}
    ELSE ColumnasDeValores(n - 1) \cup
         {Append(h, v) : h \in {x \in ColumnasDeValores(n - 1) : Len(x) = n - 1},
                         v \in ValoresCrudos}

\* the frames handed to the cleaner: a column Valor, alone or after a Marca
DataFramesLimpiar ==
    {DataFrame(<<"Valor">>, [i \in 1..Len(vs) |-> <<vs[i]>>]) :
        vs \in ColumnasDeValores(MaxFilas)}
    \cup
    {DataFrame(<<"Marca", "Valor">>, [i \in 1..Len(vs) |-> <<Txt(T_kia), vs[i]>>]) :
        vs \in ColumnasDeValores(MaxFilas)}

ColumnasLimpiar == {<<"Valor">>, <<"VALOR", "Valor">>, <<"VALOR">>}

\* lines 29-32: float(valor) if pd.notna(valor) else 0.0, and 0.0 on
\* ValueError or TypeError; float() reads the text nan as the floating NaN
FloatOCero(c) ==
    CASE c.t \in {"nulo", "nan"} -> Num(0)
      [] c.t \in {"num", "inf"} -> c
      [] c.t = "str" /\ EsTextoNumerico(c.s) -> Num(NumeroDeTexto(c.s))
      [] c.t = "str" /\ EsTextoNaN(c.s) -> NaN
      [] OTHER -> Num(0)

\* line 23: df_clean = df.copy()
Copiar ==
    /\ lpc = "inicio"
    /\ df_clean' = df
    /\ lcol' = 1
    /\ lpc' = "columnas"
    /\ UNCHANGED <<df, columnas>>
    /\ UNCHANGED <<varsApi, varsCarga, varsTablero>>

\* lines 24-35: one turn of `for col in columnas`; nothing in the inner loop
\* raises past its own except, so the outer `except Exception` never runs
LimpiarColumna ==
    /\ lpc = "columnas"
    /\ lcol <= Len(columnas)
    /\ df_clean' =
          IF TieneColumna(df_clean, columnas[lcol])
          THEN ConColumna(df_clean, columnas[lcol],
                  [i \in 1..Len(df_clean.filas) |->
                      FloatOCero(Celda(df_clean, i, columnas[lcol]))])
          ELSE df_clean
    /\ lcol' = lcol + 1
    /\ UNCHANGED <<lpc, df, columnas>>
    /\ UNCHANGED <<varsApi, varsCarga, varsTablero>>

\* line 36: return df_clean
Retornar ==
    /\ lpc = "columnas"
    /\ lcol > Len(columnas)
    /\ lpc' = "fin"
    /\ UNCHANGED <<lcol, df, columnas, df_clean>>
    /\ UNCHANGED <<varsApi, varsCarga, varsTablero>>

limpiar_columnas_numericas ==
    \/ Copiar
    \/ LimpiarColumna
    \/ Retornar

-----------------------------------------------------------------------------
(* src/app.py: calcular_variaciones_seguras and calcular_pct_change_seguro *)

\* longest monthly series explored in full
MaxMeses == 4

\* the floating infinities: sg is 1 for inf, -1 for -inf
Inf(sg) == [t |-> "inf", n |-> sg, s |-> <<>>]

EsFaltante(c) == c.t \in {"nulo", "nan"}

\* float arithmetic of (a - b) / b * 100, which a / b - 1 scaled by 100 also
\* yields: NaN when an operand is missing or on 0/0, an infinity on x/0,
\* and otherwise the quotient, kept here to the whole percent below it
Pct(a, b) ==
    IF EsFaltante(a) \/ EsFaltante(b) THEN NaN
    ELSE IF b.n = 0
         THEN IF a.n = 0 THEN NaN ELSE Inf(IF a.n > 0 THEN 1 ELSE -1)
         ELSE Num((100 * (a.n - b.n)) \div b.n)

\* line 206: series.replace(0, np.nan)
Replace0(serie) ==
    [i \in 1..Len(serie) |-> IF serie[i] = Num(0) THEN NaN ELSE serie[i]]

\* Series.ffill(): each missing value takes the last value before it
RECURSIVE Pad(_)
Pad(serie) ==
    IF Len(serie) <= 1 THEN serie
    ELSE LET antes == Pad(SubSeq(serie, 1, Len(serie) - 1))
             ult == serie[Len(serie)]
         IN Append(antes, IF EsFaltante(ult) THEN antes[Len(antes)] ELSE ult)

\* line 207: series_temp.pct_change(periods=periods) * 100; pandas fills the
\* series with fill_method first, then divides it by itself shifted
PctChange(serie, periods, relleno) ==
    LET data == IF relleno = "pad" THEN Pad(serie) ELSE serie
    IN [i \in 1..Len(serie) |->
           IF i > periods THEN Pct(data[i], data[i - periods]) ELSE NaN]

\* line 209: result.replace([np.inf, -np.inf], np.nan)
ReplaceInf(serie) ==
    [i \in 1..Len(serie) |-> IF serie[i].t = "inf" THEN NaN ELSE serie[i]]

\* lines 203-212; the bare except is not reached on a numeric series
calcular_pct_change_seguro(series, periods, relleno) ==
    ReplaceInf(PctChange(Replace0(series), periods, relleno))

\* a column of n cells np.nan
ColumnaNaN(n) == [i \in 1..n |-> NaN]

\* limpiar_columnas_numericas(d, cols) as called from other functions
RECURSIVE LimpiarColumnas(_, _)
LimpiarColumnas(d, cols) ==
    IF cols = <<>> THEN d
    ELSE LimpiarColumnas(
            IF TieneColumna(d, Head(cols))
            THEN ConColumna(d, Head(cols),
                    [i \in 1..Len(d.filas) |->
                        FloatOCero(Celda(d, i, Head(cols)))])
            ELSE d,
            Tail(cols))

\* lines 191-192 with the frames of the model: the two amount columns
valor_imp_col == "Valor"
valor_mat_col == "VALOR"

\* line 234
columnas_variacion ==
    <<"YoY_Imp", "YoY_Mat", "MoM_Imp", "MoM_Mat", "QoQ_Imp", "QoQ_Mat">>

\* the monthly totals of the series
Importes == {0, 100, 200}

RECURSIVE Series(_)
Series(n) ==
    IF n = 0 THEN {<<>>}
    ELSE Series(n - 1) \cup
         {Append(h, v) : h \in {x \in Series(n - 1) : Len(x) = n - 1},
                         v \in Importes}

\* thirteen months, the first and the last two of them free
SeriesLargas ==
    {[i \in 1..13 |-> IF i = 1 THEN a ELSE IF i = 12 THEN b
                      ELSE IF i = 13 THEN c ELSE 100] :
        a \in Importes, b \in Importes, c \in Importes}

SeriesPosibles == Series(MaxMeses) \cup SeriesLargas

Reverso(q) == [i \in 1..Len(q) |-> q[Len(q) + 1 - i]]

\* the first day of the i-th month counted from January 2023
FechaMensual(i) ==
    Fecha((2023 + (i - 1) \div 12) * 10000 + (((i - 1) % 12) + 1) * 100 + 1)

\* df_trend of lines 622 and 682: imports and registrations per month,
\* merged on Fecha and zero-filled
Comparativo(imp, mat) ==
    DataFrame(<<"Fecha", valor_imp_col, valor_mat_col>>,
              [i \in 1..Len(imp) |-> <<FechaMensual(i), Num(imp[i]), Num(mat[i])>>])

\* the frames handed to crear_graficos_variaciones, and one without its
\* registrations column
DataFramesComparativos ==
    {Comparativo(q, Reverso(q)) : q \in SeriesPosibles}
    \cup {Comparativo(<<100, 0, 150>>, <<100, 0, 150>>)}
    \cup {Comparativo(<<1, 200, 100, 5>>, <<200, 1, 100, 2000>>)}
    \cup {DataFrame(<<"Fecha", valor_imp_col>>,
                    <<<<FechaMensual(1), Num(100)>>, <<FechaMensual(2), Num(200)>>>>)}

\* lines 239-241: except Exception: st.error(...); return df
DevolverOriginal ==
    /\ vpc' = "fin"
    /\ df_ret' = df_comp
    /\ UNCHANGED df_var

\* lines 197-200: df_var = limpiar_columnas_numericas(df.copy(), [col_imp, col_mat])
LimpiezaInicial ==
    /\ vpc = "inicio"
    /\ df_var' = LimpiarColumnas(df_comp, <<valor_imp_col, valor_mat_col>>)
    /\ vpc' = "yoy"
    /\ UNCHANGED <<graficos, df_comp, fill_method, df_ret>>
    /\ UNCHANGED <<varsApi, varsCarga, varsLimpiar, varsMoM, varsYoY, varsPaginas>>

\* lines 215-220: YoY over 12 periods when there are at least 12 rows;
\* df_var[col] on an absent column raises KeyError
VariacionYoY ==
    /\ vpc = "yoy"
    /\ IF Len(df_var.filas) >= 12
       THEN IF TieneColumna(df_var, valor_imp_col) /\ TieneColumna(df_var, valor_mat_col)
            THEN /\ df_var' =
                      ConColumna(
                        ConColumna(df_var, "YoY_Imp",
                          calcular_pct_change_seguro(Columna(df_var, valor_imp_col), 12, fill_method)),
                        "YoY_Mat",
                        calcular_pct_change_seguro(Columna(df_var, valor_mat_col), 12, fill_method))
                 /\ vpc' = "mom"
                 /\ UNCHANGED df_ret
            ELSE DevolverOriginal
       ELSE /\ df_var' = ConColumna(ConColumna(df_var, "YoY_Imp", ColumnaNaN(Len(df_var.filas))),
                                    "YoY_Mat", ColumnaNaN(Len(df_var.filas)))
            /\ vpc' = "mom"
            /\ UNCHANGED df_ret
    /\ UNCHANGED <<graficos, df_comp, fill_method>>
    /\ UNCHANGED <<varsApi, varsCarga, varsLimpiar, varsMoM, varsYoY, varsPaginas>>

\* lines 223-224: MoM over 1 period, always
VariacionMoM ==
    /\ vpc = "mom"
    /\ IF TieneColumna(df_var, valor_imp_col) /\ TieneColumna(df_var, valor_mat_col)
       THEN /\ df_var' =
                 ConColumna(
                   ConColumna(df_var, "MoM_Imp",
                     calcular_pct_change_seguro(Columna(df_var, valor_imp_col), 1, fill_method)),
                   "MoM_Mat",
                   calcular_pct_change_seguro(Columna(df_var, valor_mat_col), 1, fill_method))
            /\ vpc' = "qoq"
            /\ UNCHANGED df_ret
       ELSE DevolverOriginal
    /\ UNCHANGED <<graficos, df_comp, fill_method>>
    /\ UNCHANGED <<varsApi, varsCarga, varsLimpiar, varsMoM, varsYoY, varsPaginas>>

\* lines 227-232: QoQ over 3 periods when there are at least 3 rows
VariacionQoQ ==
    /\ vpc = "qoq"
    /\ df_var' =
          IF Len(df_var.filas) >= 3
          THEN ConColumna(
                 ConColumna(df_var, "QoQ_Imp",
                   calcular_pct_change_seguro(Columna(df_var, valor_imp_col), 3, fill_method)),
                 "QoQ_Mat",
                 calcular_pct_change_seguro(Columna(df_var, valor_mat_col), 3, fill_method))
          ELSE ConColumna(ConColumna(df_var, "QoQ_Imp", ColumnaNaN(Len(df_var.filas))),
                          "QoQ_Mat", ColumnaNaN(Len(df_var.filas)))
    /\ vpc' = "limpieza"
    /\ UNCHANGED <<graficos, df_comp, fill_method, df_ret>>
    /\ UNCHANGED <<varsApi, varsCarga, varsLimpiar, varsMoM, varsYoY, varsPaginas>>

\* lines 234-238: the final numeric cleaning of the six variation columns,
\* then return df_var
LimpiezaFinal ==
    /\ vpc = "limpieza"
    /\ df_var' = LimpiarColumnas(df_var, columnas_variacion)
    /\ df_ret' = LimpiarColumnas(df_var, columnas_variacion)
    /\ vpc' = "fin"
    /\ UNCHANGED <<graficos, df_comp, fill_method>>
    /\ UNCHANGED <<varsApi, varsCarga, varsLimpiar, varsMoM, varsYoY, varsPaginas>>

calcular_variaciones_seguras ==
    \/ LimpiezaInicial
    \/ VariacionYoY
    \/ VariacionMoM
    \/ VariacionQoQ
    \/ LimpiezaFinal

\* line 254: the default of limpiar_outliers
limite == 1000

\* Series.clip(-lim, lim) on one cell: a missing value stays missing
Clip(c, lim) ==
    CASE c.t = "num" /\ c.n > lim -> Num(lim)
      [] c.t = "num" /\ c.n < 0 - lim -> Num(0 - lim)
      [] c.t = "inf" -> Num(c.n * lim)
      [] OTHER -> c

\* lines 254-258, on a Series
limpiar_outliers(series) == [i \in 1..Len(series) |-> Clip(series[i], limite)]

\* what a chart that could not be built leaves: None
SinGrafico == [columnas |-> <<"(None)">>, filas |-> <<>>]
SinGraficos == [yoy |-> SinGrafico, mom |-> SinGrafico, qoq |-> SinGrafico]

\* lines 245-261 of crear_grafico_variacion_mejorado: df_clean, the frame
\* whose columns Fecha, col_imp and col_mat are plotted; None when a column is
\* not there (KeyError, caught at line 318) or no row is left
crear_grafico_variacion_mejorado(d, col_imp, col_mat) ==
    IF ~(TieneColumna(d, col_imp) /\ TieneColumna(d, col_mat)) THEN SinGrafico
    ELSE LET limpio == Dropna(Dropna(d, col_imp), col_mat)
         IN  IF limpio.filas = <<>> THEN SinGrafico
             ELSE ConColumna(
                    ConColumna(limpio, col_imp, limpiar_outliers(Columna(limpio, col_imp))),
                    col_mat, limpiar_outliers(Columna(limpio, col_mat)))

\* lines 326-344: the three charts are built from df_comp, and the figures
\* and df_comp are returned
CrearGraficos ==
    /\ vpc = "fin"
    /\ graficos' = [yoy |-> crear_grafico_variacion_mejorado(df_ret, "YoY_Imp", "YoY_Mat"),
                    mom |-> crear_grafico_variacion_mejorado(df_ret, "MoM_Imp", "MoM_Mat"),
                    qoq |-> crear_grafico_variacion_mejorado(df_ret, "QoQ_Imp", "QoQ_Mat")]
    /\ vpc' = "devuelto"
    /\ UNCHANGED <<df_comp, fill_method, df_var, df_ret>>
    /\ UNCHANGED <<varsApi, varsCarga, varsLimpiar, varsMoM, varsYoY, varsPaginas>>

crear_graficos_variaciones ==
    \/ calcular_variaciones_seguras
    \/ CrearGraficos

-----------------------------------------------------------------------------
(* src/app.py: the inputs of the "Comparativos Temporales" page *)

\* rows per table handed to the page
MaxRegistros == 2

\* brands as the loader stores them, in the order sort_values gives them
M_KIA == <<"K", "I", "A">>
M_TOYOTA == <<"T", "O", "Y", "O", "T", "A">>
MarcasOrdenadas == <<M_KIA, M_TOYOTA>>

\* days of three months: two consecutive, and the first one a year later
FechasRegistro == {Fecha(20230110), Fecha(20230215), Fecha(20240105)}
\* their (year, month), in calendar order
PeriodosOrdenados == <<<<2023, 1>>, <<2023, 2>>, <<2024, 1>>>>

\* amounts as to_numeric leaves them; a negative amount is a number too
ImportesRegistro == {-100, 0, 100}

\* stored rows: <<date, brand, amount>>
FilasRegistro ==
    {<<f, Txt(m), Num(v)>> :
        f \in FechasRegistro, m \in {M_KIA, M_TOYOTA}, v \in ImportesRegistro}

RECURSIVE Registros(_)
Registros(n) ==
    IF n = 0 THEN {<<>>}
    ELSE Registros(n - 1) \cup
         {Append(h, r) : h \in {x \in Registros(n - 1) : Len(x) = n - 1},
                         r \in FilasRegistro}

\* line 580-581
col_valor_imp == "Valor"
col_valor_mat == "VALOR"

\* the two tables as read back from automotor.db
Importaciones(filas) == DataFrame(<<"Fecha", "Marca", col_valor_imp>>, filas)
Matriculaciones(filas) == DataFrame(<<"fecha", "Marca", col_valor_mat>>, filas)

FilasFijas == <<<<Fecha(20230110), Txt(M_KIA), Num(100)>>,
                <<Fecha(20240105), Txt(M_KIA), Num(0)>>>>

\* one table explored in full, the other one fixed
TablasPosibles ==
    {[imp |-> Importaciones(q), mat |-> Matriculaciones(FilasFijas)] :
        q \in Registros(MaxRegistros)}
    \cup
    {[imp |-> Importaciones(FilasFijas), mat |-> Matriculaciones(q)] :
        q \in Registros(MaxRegistros)}

-----------------------------------------------------------------------------
(* src/app.py: monthly totals per brand *)

\* d['Año'] = d[fecha].dt.year; d['Mes'] = d[fecha].dt.month
ConAnioYMes(d, fecha) ==
    ConColumna(
        ConColumna(d, "Año", [i \in 1..Len(d.filas) |-> Num(Anio(Celda(d, i, fecha)))]),
        "Mes", [i \in 1..Len(d.filas) |-> Num(Mes(Celda(d, i, fecha)))])

\* group keys <<brand, <<year, month>>>> in the order groupby sorts them
ClavesOrdenadas ==
    [k \in 1..(Len(MarcasOrdenadas) * Len(PeriodosOrdenados)) |->
        <<MarcasOrdenadas[((k - 1) \div Len(PeriodosOrdenados)) + 1],
          PeriodosOrdenados[((k - 1) % Len(PeriodosOrdenados)) + 1]>>]

\* row i of d belongs to the group of the key
EnGrupo(d, i, clave) ==
    /\ Celda(d, i, "Marca").s = clave[1]
    /\ Celda(d, i, "Año").n = clave[2][1]
    /\ Celda(d, i, "Mes").n = clave[2][2]

HayGrupo(d, clave) == \E i \in 1..Len(d.filas) : EnGrupo(d, i, clave)

\* sum() of column valor over the first i rows of the group; sum skips NaN
RECURSIVE SumaGrupo(_, _, _, _)
SumaGrupo(d, valor, clave, i) ==
    IF i = 0 THEN 0
    ELSE SumaGrupo(d, valor, clave, i - 1)
         + (IF EnGrupo(d, i, clave) /\ Celda(d, i, valor).t = "num"
            THEN Celda(d, i, valor).n ELSE 0)

\* d.groupby(['Marca', 'Año', 'Mes'])[valor].sum().reset_index()
GroupBySum(d, valor) ==
    LET claves == SelectSeq(ClavesOrdenadas, LAMBDA k : HayGrupo(d, k))
    IN  DataFrame(<<"Marca", "Año", "Mes", valor>>,
            [j \in 1..Len(claves) |->
                <<Txt(claves[j][1]), Num(claves[j][2][1]), Num(claves[j][2][2]),
                  Num(SumaGrupo(d, valor, claves[j], Len(d.filas)))>>])

\* crear_fecha_segura: datetime(año, mes, 1), NaT on ValueError
crear_fecha_segura(d) ==
    [i \in 1..Len(d.filas) |->
        IF Celda(d, i, "Mes").n \in 1..12 /\ Celda(d, i, "Año").n \in 1..9999
        THEN Fecha(Celda(d, i, "Año").n * 10000 + Celda(d, i, "Mes").n * 100 + 1)
        ELSE Nulo]

\* d.sort_values(['Marca', 'Fecha']) on a table with one row per key
SortMarcaFecha(d) ==
    LET claves == SelectSeq(ClavesOrdenadas, LAMBDA k : HayGrupo(d, k))
    IN  DataFrame(d.columnas,
            [j \in 1..Len(claves) |->
                d.filas[CHOOSE i \in 1..Len(d.filas) : EnGrupo(d, i, claves[j])]])

\* d.groupby('Marca')[valor].shift(1): the value of the previous row of the
\* same brand, NaN on the first row of a brand
ShiftPorMarca(d, valor) ==
    [i \in 1..Len(d.filas) |->
        LET antes == {j \in 1..(i - 1) : Celda(d, j, "Marca") = Celda(d, i, "Marca")}
        IN  IF antes = {} THEN NaN
            ELSE Celda(d, CHOOSE j \in antes : \A k \in antes : k <= j, valor)]

\* lines 771-772, 775-776: Valor_Anterior, then
\* ((valor - Valor_Anterior) / Valor_Anterior * 100).fillna(0)
ConMoM(d, valor) ==
    LET d1 == ConColumna(d, "Valor_Anterior", ShiftPorMarca(d, valor))
    IN  ConColumna(d1, "MoM_%",
            [i \in 1..Len(d1.filas) |->
                Fillna(Pct(Celda(d1, i, valor), Celda(d1, i, "Valor_Anterior")), 0)])

\* lines 735-742
PrepararMensual ==
    /\ mpc = "inicio"
    /\ imp_mensual' = ConAnioYMes(imp_filtrado, "Fecha")
    /\ mat_mensual' = ConAnioYMes(mat_filtrado, "fecha")
    /\ mpc' = "agregar"
    /\ UNCHANGED <<imp_filtrado, mat_filtrado, imp_agg, mat_agg>>
    /\ UNCHANGED <<varsApi, varsCarga, varsLimpiar, varsVariaciones, varsYoY, varsPaginas>>

\* lines 745-746
AgregarPorMarca ==
    /\ mpc = "agregar"
    /\ imp_agg' = GroupBySum(imp_mensual, col_valor_imp)
    /\ mat_agg' = GroupBySum(mat_mensual, col_valor_mat)
    /\ mpc' = "fechas"
    /\ UNCHANGED <<imp_filtrado, mat_filtrado, imp_mensual, mat_mensual>>
    /\ UNCHANGED <<varsApi, varsCarga, varsLimpiar, varsVariaciones, varsYoY, varsPaginas>>

\* lines 759-764
CrearFechas ==
    /\ mpc = "fechas"
    /\ imp_agg' = Dropna(ConColumna(imp_agg, "Fecha", crear_fecha_segura(imp_agg)), "Fecha")
    /\ mat_agg' = Dropna(ConColumna(mat_agg, "Fecha", crear_fecha_segura(mat_agg)), "Fecha")
    /\ mpc' = "ordenar"
    /\ UNCHANGED <<imp_filtrado, mat_filtrado, imp_mensual, mat_mensual>>
    /\ UNCHANGED <<varsApi, varsCarga, varsLimpiar, varsVariaciones, varsYoY, varsPaginas>>

\* lines 767-768
OrdenarPorFecha ==
    /\ mpc = "ordenar"
    /\ imp_agg' = SortMarcaFecha(imp_agg)
    /\ mat_agg' = SortMarcaFecha(mat_agg)
    /\ mpc' = "mom"
    /\ UNCHANGED <<imp_filtrado, mat_filtrado, imp_mensual, mat_mensual>>
    /\ UNCHANGED <<varsApi, varsCarga, varsLimpiar, varsVariaciones, varsYoY, varsPaginas>>

\* lines 771-776
CalcularMoM ==
    /\ mpc = "mom"
    /\ imp_agg' = ConMoM(imp_agg, col_valor_imp)
    /\ mat_agg' = ConMoM(mat_agg, col_valor_mat)
    /\ mpc' = "fin"
    /\ UNCHANGED <<imp_filtrado, mat_filtrado, imp_mensual, mat_mensual>>
    /\ UNCHANGED <<varsApi, varsCarga, varsLimpiar, varsVariaciones, varsYoY, varsPaginas>>

comparativos_mensuales ==
    \/ PrepararMensual
    \/ AgregarPorMarca
    \/ CrearFechas
    \/ OrdenarPorFecha
    \/ CalcularMoM

-----------------------------------------------------------------------------
(* src/app.py: the year-over-year point comparison *)

\* the rows of d of one year and month (lines 923-941)
DelPeriodo(d, anio, mes) ==
    DataFrame(d.columnas,
        SelectSeq(d.filas,
            LAMBDA f : /\ f[Pos("Año", d.columnas)].n = anio
                       /\ f[Pos("Mes", d.columnas)].n = mes))

\* d[d['Marca'] == marca][valor].sum() over the first i rows
RECURSIVE SumaMarca(_, _, _, _)
SumaMarca(d, valor, marca, i) ==
    IF i = 0 THEN 0
    ELSE SumaMarca(d, valor, marca, i - 1)
         + (IF Celda(d, i, "Marca").s = marca /\ Celda(d, i, valor).t = "num"
            THEN Celda(d, i, valor).n ELSE 0)

\* set(d['Marca'].unique()), empty for an empty frame
MarcasDe(d) == {Celda(d, i, "Marca").s : i \in 1..Len(d.filas)}

\* any previous total other than zero is divided by
variacion_yoy_Mut(valor_actual, valor_anterior) ==
    IF valor_anterior # 0 THEN Pct(Num(valor_actual), Num(valor_anterior)) ELSE Num(0)
\* line 959
variacion_yoy(valor_actual, valor_anterior) ==
    IF valor_anterior > 0 THEN Pct(Num(valor_actual), Num(valor_anterior)) ELSE Num(0)

\* the orders in which `for marca in a_set` may visit a set of brands: the
\* order follows the hashes of the strings, which every start of the Python
\* process draws anew
OrdenesDeMarcas == {MarcasOrdenadas, Reverso(MarcasOrdenadas)}

SinEvaluacion == [hecha |-> FALSE]

\* lines 944-968; orden is the iteration order of the set marcas_todas, and
\* Valor_Anterior and Valor_Actual stand for the columns Valor_{Y-1}, Valor_{Y}
combinar_datos_actual_anterior(actual, anterior, valor, orden) ==
    IF Len(actual.filas) = 0 /\ Len(anterior.filas) = 0 THEN DataFrameVacio
    ELSE LET marcas_todas == MarcasDe(actual) \cup MarcasDe(anterior)
             visitadas == SelectSeq(orden, LAMBDA m : m \in marcas_todas)
         IN  DataFrame(<<"Marca", "Valor_Anterior", "Valor_Actual", "Variacion_YoY">>,
                 [j \in 1..Len(visitadas) |->
                     LET valor_actual ==
                             SumaMarca(actual, valor, visitadas[j], Len(actual.filas))
                         valor_anterior ==
                             SumaMarca(anterior, valor, visitadas[j], Len(anterior.filas))
                     IN  <<Txt(visitadas[j]), Num(valor_anterior), Num(valor_actual),
                           variacion_yoy(valor_actual, valor_anterior)>>])

\* lines 847-866: copies with datetime dates, Año and Mes, numeric amounts,
\* and no row without a date
PrepararYoY ==
    /\ ypc = "inicio"
    /\ imp_yoy_df' =
          Dropna(LimpiarColumnas(
                    ConAnioYMes(ConColumna(importaciones, "Fecha",
                        [i \in 1..Len(importaciones.filas) |->
                            ToDatetime(Celda(importaciones, i, "Fecha"))]), "Fecha"),
                    <<col_valor_imp>>), "Fecha")
    /\ mat_yoy_df' =
          Dropna(LimpiarColumnas(
                    ConAnioYMes(ConColumna(matriculaciones, "fecha",
                        [i \in 1..Len(matriculaciones.filas) |->
                            ToDatetime(Celda(matriculaciones, i, "fecha"))]), "fecha"),
                    <<col_valor_mat>>), "fecha")
    /\ ypc' = "seleccionar"
    /\ UNCHANGED <<importaciones, matriculaciones, anio_seleccionado_yoy,
                   mes_seleccionado_yoy, imp_yoy_agg, mat_yoy_agg,
                   imp_comparacion, mat_comparacion>>
    /\ UNCHANGED <<top_marcas_grafico, orden_de_hash, evaluacion_previa>>
    /\ UNCHANGED <<varsApi, varsCarga, varsLimpiar, varsVariaciones, varsMoM, varsPaginas>>

\* lines 869-890: the two select boxes offer the years and the months of the
\* imports table; on a later evaluation they keep what was selected
SeleccionarPeriodo ==
    /\ ypc = "seleccionar"
    /\ Len(imp_yoy_df.filas) > 0
    /\ IF evaluacion_previa = SinEvaluacion
       THEN \E i \in 1..Len(imp_yoy_df.filas), j \in 1..Len(imp_yoy_df.filas) :
               /\ anio_seleccionado_yoy' = Celda(imp_yoy_df, i, "Año").n
               /\ mes_seleccionado_yoy' = Celda(imp_yoy_df, j, "Mes").n
       ELSE UNCHANGED <<anio_seleccionado_yoy, mes_seleccionado_yoy>>
    /\ ypc' = "agregar"
    /\ UNCHANGED <<top_marcas_grafico, orden_de_hash, evaluacion_previa>>
    /\ UNCHANGED <<importaciones, matriculaciones, imp_yoy_df, mat_yoy_df,
                   imp_yoy_agg, mat_yoy_agg, imp_comparacion, mat_comparacion>>
    /\ UNCHANGED <<varsApi, varsCarga, varsLimpiar, varsVariaciones, varsMoM, varsPaginas>>

\* lines 876-893 on an empty imports table: the select boxes return None and
\* the :02d format of line 893 raises; lines 1200-1201 report the error
SinPeriodo ==
    /\ ypc = "seleccionar"
    /\ Len(imp_yoy_df.filas) = 0
    /\ ypc' = "error"
    /\ UNCHANGED <<importaciones, matriculaciones, imp_yoy_df, mat_yoy_df,
                   anio_seleccionado_yoy, mes_seleccionado_yoy,
                   imp_yoy_agg, mat_yoy_agg, imp_comparacion, mat_comparacion>>
    /\ UNCHANGED <<top_marcas_grafico, orden_de_hash, evaluacion_previa>>
    /\ UNCHANGED <<varsApi, varsCarga, varsLimpiar, varsVariaciones, varsMoM, varsPaginas>>

\* lines 897-920
AgregarYoY ==
    /\ ypc = "agregar"
    /\ imp_yoy_agg' =
          LET a == GroupBySum(imp_yoy_df, col_valor_imp)
          IN  Dropna(ConColumna(a, "Fecha", crear_fecha_segura(a)), "Fecha")
    /\ mat_yoy_agg' =
          LET a == GroupBySum(mat_yoy_df, col_valor_mat)
          IN  Dropna(ConColumna(a, "Fecha", crear_fecha_segura(a)), "Fecha")
    /\ ypc' = "combinar"
    /\ UNCHANGED <<importaciones, matriculaciones, imp_yoy_df, mat_yoy_df,
                   anio_seleccionado_yoy, mes_seleccionado_yoy,
                   imp_comparacion, mat_comparacion>>
    /\ UNCHANGED <<top_marcas_grafico, orden_de_hash, evaluacion_previa>>
    /\ UNCHANGED <<varsApi, varsCarga, varsLimpiar, varsVariaciones, varsMoM, varsPaginas>>

\* lines 923-972
CombinarYoY ==
    /\ ypc = "combinar"
    /\ LET o1 == orden_de_hash
           o2 == orden_de_hash
       IN /\ imp_comparacion' =
                combinar_datos_actual_anterior(
                    DelPeriodo(imp_yoy_agg, anio_seleccionado_yoy, mes_seleccionado_yoy),
                    DelPeriodo(imp_yoy_agg, anio_seleccionado_yoy - 1, mes_seleccionado_yoy),
                    col_valor_imp, o1)
          /\ mat_comparacion' =
                combinar_datos_actual_anterior(
                    DelPeriodo(mat_yoy_agg, anio_seleccionado_yoy, mes_seleccionado_yoy),
                    DelPeriodo(mat_yoy_agg, anio_seleccionado_yoy - 1, mes_seleccionado_yoy),
                    col_valor_mat, o2)
    /\ ypc' = "fin"
    /\ UNCHANGED <<top_marcas_grafico, orden_de_hash, evaluacion_previa>>
    /\ UNCHANGED <<importaciones, matriculaciones, imp_yoy_df, mat_yoy_df,
                   anio_seleccionado_yoy, mes_seleccionado_yoy,
                   imp_yoy_agg, mat_yoy_agg>>
    /\ UNCHANGED <<varsApi, varsCarga, varsLimpiar, varsVariaciones, varsMoM, varsPaginas>>

\* d[columna] summed over the rows of a brand, 0 for an empty frame
TotalDe(d, columna, marca) ==
    IF Len(d.filas) = 0 THEN 0 ELSE SumaMarca(d, columna, marca, Len(d.filas))

\* DataFrame.nlargest(n, columna)[devuelta].tolist(): the n rows with the
\* largest values, largest first, equal values in the order of the frame
Nlargest(d, n, columna, devuelta) ==
    LET antes(i) == {j \in 1..Len(d.filas) :
                       \/ Celda(d, j, columna).n > Celda(d, i, columna).n
                       \/ /\ Celda(d, j, columna).n = Celda(d, i, columna).n
                          /\ j < i}
        largo == IF Len(d.filas) < n THEN Len(d.filas) ELSE n
    IN  [k \in 1..largo |->
            Celda(d, CHOOSE i \in 1..Len(d.filas) : Cardinality(antes(i)) = k - 1,
                  devuelta)]

\* lines 994-1033: the brands of both comparison tables, visited in the order
\* of the set todas_las_marcas, with Total_Actual = Imp_{Y} + Mat_{Y}; then
\* the ten largest
GraficoYoY ==
    /\ ypc = "fin"
    /\ IF Len(imp_comparacion.filas) = 0 /\ Len(mat_comparacion.filas) = 0
       THEN top_marcas_grafico' = <<>>
       ELSE LET todas_las_marcas == MarcasDe(imp_comparacion) \cup MarcasDe(mat_comparacion)
                visitadas == SelectSeq(orden_de_hash, LAMBDA m : m \in todas_las_marcas)
                df_grafico ==
                    DataFrame(<<"Marca", "Total_Actual">>,
                        [j \in 1..Len(visitadas) |->
                            <<Txt(visitadas[j]),
                              Num(TotalDe(imp_comparacion, "Valor_Actual", visitadas[j])
                                  + TotalDe(mat_comparacion, "Valor_Actual", visitadas[j]))>>])
            IN  top_marcas_grafico' = Nlargest(df_grafico, 10, "Total_Actual", "Marca")
    /\ ypc' = "grafico"
    /\ UNCHANGED <<importaciones, matriculaciones, imp_yoy_df, mat_yoy_df,
                   anio_seleccionado_yoy, mes_seleccionado_yoy,
                   imp_yoy_agg, mat_yoy_agg, imp_comparacion, mat_comparacion,
                   orden_de_hash, evaluacion_previa>>
    /\ UNCHANGED <<varsApi, varsCarga, varsLimpiar, varsVariaciones, varsMoM, varsPaginas>>

\* the locals of the section before it runs
LocalesYoY ==
    /\ imp_yoy_df' = DataFrameVacio /\ mat_yoy_df' = DataFrameVacio
    /\ imp_yoy_agg' = DataFrameVacio /\ mat_yoy_agg' = DataFrameVacio
    /\ imp_comparacion' = DataFrameVacio /\ mat_comparacion' = DataFrameVacio
    /\ top_marcas_grafico' = <<>>

\* what an evaluation leaves to compare the next one with
Evaluacion(reinicio) ==
    [hecha |-> TRUE, reinicio |-> reinicio,
     imp_comparacion |-> imp_comparacion, mat_comparacion |-> mat_comparacion,
     top_marcas_grafico |-> top_marcas_grafico]

\* Streamlit runs the script again in the same server process: same tables,
\* same widget values, same string hashes
Rerun ==
    /\ ypc = "grafico"
    /\ evaluacion_previa = SinEvaluacion
    /\ evaluacion_previa' = Evaluacion(FALSE)
    /\ LocalesYoY
    /\ ypc' = "inicio"
    /\ UNCHANGED <<importaciones, matriculaciones, anio_seleccionado_yoy,
                   mes_seleccionado_yoy, orden_de_hash>>
    /\ UNCHANGED <<varsApi, varsCarga, varsLimpiar, varsVariaciones, varsMoM, varsPaginas>>

\* the server is started again and the same page is asked for with the same
\* tables and selections: the new process has its own string hashes
RerunTrasReinicio ==
    /\ ypc = "grafico"
    /\ evaluacion_previa = SinEvaluacion
    /\ evaluacion_previa' = Evaluacion(TRUE)
    /\ orden_de_hash' \in OrdenesDeMarcas
    /\ LocalesYoY
    /\ ypc' = "inicio"
    /\ UNCHANGED <<importaciones, matriculaciones, anio_seleccionado_yoy,
                   mes_seleccionado_yoy>>
    /\ UNCHANGED <<varsApi, varsCarga, varsLimpiar, varsVariaciones, varsMoM, varsPaginas>>

comparacion_yoy ==
    \/ PrepararYoY
    \/ SeleccionarPeriodo
    \/ SinPeriodo
    \/ AgregarYoY
    \/ CombinarYoY
    \/ GraficoYoY

\* the section evaluated, and evaluated again
comparacion_yoy_repetida ==
    \/ comparacion_yoy
    \/ Rerun
    \/ RerunTrasReinicio

-----------------------------------------------------------------------------
(* src/app.py: totals per brand, the ten largest, and the Chinese competitors *)

\* rows added to the tables of this section
MaxVentas == 2

M_BYD == <<"B", "Y", "D">>
M_CHERY == <<"C", "H", "E", "R", "Y">>
M_FORD == <<"F", "O", "R", "D">>
M_GEELY == <<"G", "E", "E", "L", "Y">>
M_HAVAL == <<"H", "A", "V", "A", "L">>
M_HYUNDAI == <<"H", "Y", "U", "N", "D", "A", "I">>
M_JAC == <<"J", "A", "C">>
M_JETOUR == <<"J", "E", "T", "O", "U", "R">>
M_MG == <<"M", "G">>
M_NISSAN == <<"N", "I", "S", "S", "A", "N">>

\* the brands of the tables, in the order in which groupby sorts its keys
MarcasDelMercado ==
    <<M_BYD, M_CHERY, M_FORD, M_GEELY, M_HAVAL, M_HYUNDAI,
      M_JAC, M_JETOUR, M_KIA, M_MG, M_NISSAN, M_TOYOTA>>

L_Chery == <<"C", "h", "e", "r", "y">>
L_Geely == <<"G", "e", "e", "l", "y">>
L_BYD == <<"B", "Y", "D">>
L_Great_Wall == <<"G", "r", "e", "a", "t", " ", "W", "a", "l", "l">>
L_JAC == <<"J", "A", "C">>
L_Jetour == <<"J", "e", "t", "o", "u", "r">>
L_Haval == <<"H", "a", "v", "a", "l">>
L_MG == <<"M", "G">>
L_Dongfeng == <<"D", "o", "n", "g", "f", "e", "n", "g">>

\* line 1440
marcas_chinas ==
    <<L_Chery, L_Geely, L_BYD, L_Great_Wall, L_JAC,
      L_Jetour, L_Haval, L_MG, L_Dongfeng>>

\* eleven brands with one row each, three of them with the smallest total,
\* and a table of three brands
FilasDeOnceMarcas ==
    <<<<Txt(M_NISSAN), Num(80)>>, <<Txt(M_KIA), Num(70)>>, <<Txt(M_HYUNDAI), Num(60)>>,
      <<Txt(M_BYD), Num(50)>>, <<Txt(M_CHERY), Num(40)>>, <<Txt(M_GEELY), Num(30)>>,
      <<Txt(M_FORD), Num(30)>>, <<Txt(M_HAVAL), Num(20)>>, <<Txt(M_MG), Num(10)>>,
      <<Txt(M_JETOUR), Num(10)>>, <<Txt(M_JAC), Num(10)>>>>
FilasDeTresMarcas ==
    <<<<Txt(M_KIA), Num(20)>>, <<Txt(M_BYD), Num(20)>>, <<Txt(M_CHERY), Num(10)>>>>

\* the rows added to them: <<brand, amount>>
FilasDeVenta ==
    {<<Txt(m), Num(v)>> : m \in {M_TOYOTA, M_JAC, M_CHERY}, v \in {0, 10, 100}}

RECURSIVE Ventas(_)
Ventas(n) ==
    IF n = 0 THEN {<<>>}
    ELSE Ventas(n - 1) \cup
         {Append(h, r) : h \in {x \in Ventas(n - 1) : Len(x) = n - 1}, r \in FilasDeVenta}

\* datos_imp: the columns Marca and Valor of the filtered imports
DatosPosibles_imp ==
    {DataFrame(<<"Marca", "Valor">>, base \o q) :
        base \in {FilasDeOnceMarcas, FilasDeTresMarcas}, q \in Ventas(MaxVentas)}

\* the same rows in another order: reversed, or two neighbours swapped
Reordenadas(filas) ==
    {Reverso(filas)} \cup
    {[i \in 1..Len(filas) |->
         IF i = k THEN filas[k + 1] ELSE IF i = k + 1 THEN filas[k] ELSE filas[i]] :
       k \in 1..(Len(filas) - 1)}

\* a Series indexed by brand is a sequence of <<brand, total>>
SinSerie == <<<<"(None)">>>>

\* the keys in the order in which the rows first name them
GroupByMarcaMut(d, valor) ==
    LET primeras == {i \in 1..Len(d.filas) :
                        \A j \in 1..(i - 1) : Celda(d, j, "Marca") # Celda(d, i, "Marca")}
    IN  [k \in 1..Cardinality(primeras) |->
            LET i == CHOOSE x \in primeras :
                        Cardinality({y \in primeras : y < x}) = k - 1
            IN  <<Celda(d, i, "Marca").s,
                  SumaMarca(d, valor, Celda(d, i, "Marca").s, Len(d.filas))>>]
\* d.groupby('Marca')[valor].sum(): one entry per brand, keys sorted
GroupByMarca(d, valor) ==
    LET claves == SelectSeq(MarcasDelMercado, LAMBDA m : m \in MarcasDe(d))
    IN  [k \in 1..Len(claves) |->
            <<claves[k], SumaMarca(d, valor, claves[k], Len(d.filas))>>]

\* the smallest totals come first
SortValuesMut(serie, empates) ==
    LET antes(i) == {j \in 1..Len(serie) :
                       \/ serie[j][2] < serie[i][2]
                       \/ serie[j][2] = serie[i][2] /\ j < i}
    IN  [k \in 1..Len(serie) |->
            serie[CHOOSE i \in 1..Len(serie) : Cardinality(antes(i)) = k - 1]]
\* Series.sort_values(ascending=False): largest total first; equal totals
\* keep their order under a stable sort and may come out in another order
\* under the default quicksort, depending on the installed numpy
SortValues(serie, empates) ==
    LET antes(i) == {j \in 1..Len(serie) :
                       \/ serie[j][2] > serie[i][2]
                       \/ /\ serie[j][2] = serie[i][2]
                          /\ IF empates = "estable" THEN j < i ELSE j > i}
    IN  [k \in 1..Len(serie) |->
            serie[CHOOSE i \in 1..Len(serie) : Cardinality(antes(i)) = k - 1]]

\* Series.head(n)
HeadN(serie, n) == SubSeq(serie, 1, IF Len(serie) < n THEN Len(serie) ELSE n)

\* lines 347, 779, 1396, 1399
TopMarcas(d, valor, empates) == HeadN(SortValues(GroupByMarca(d, valor), empates), 10)

\* d[d['Marca'].isin(lista)]
Isin(d, lista) ==
    DataFrame(d.columnas,
        SelectSeq(d.filas,
            LAMBDA f : \E k \in 1..Len(lista) : f[Pos("Marca", d.columnas)].s = lista[k]))

\* Series.sum()
RECURSIVE SumaSerie(_)
SumaSerie(serie) ==
    IF serie = <<>> THEN 0 ELSE serie[1][2] + SumaSerie(Tail(serie))

\* round(parte / total * 100, 2), in hundredths of a percent
Participacion(parte, total) == (20000 * parte + total) \div (2 * total)

\* lines 1396: the ten brands with the largest totals
CalcularTopMarcas ==
    /\ tpc = "inicio"
    /\ imp_por_marca' = TopMarcas(datos_imp, "Valor", desempate)
    /\ tpc' = "chinos"
    /\ UNCHANGED <<datos_imp, desempate, comp_chinos_imp, participacion_chinos_imp,
                   imp_por_marca_previo>>
    /\ UNCHANGED <<varsApi, varsCarga, varsLimpiar, varsVariaciones, varsMoM, varsYoY, varsFiltros,
                   varsArranque>>

\* lines 1440-1452: the totals of the competitors and their share
CompetidoresChinos ==
    /\ tpc = "chinos"
    /\ comp_chinos_imp' = GroupByMarca(Isin(datos_imp, marcas_chinas), "Valor")
    /\ participacion_chinos_imp' =
          LET total_imp == SumaSerie(GroupByMarca(datos_imp, "Valor"))
          IN  IF total_imp > 0
              THEN Participacion(
                     SumaSerie(GroupByMarca(Isin(datos_imp, marcas_chinas), "Valor")),
                     total_imp)
              ELSE 0
    /\ tpc' = "fin"
    /\ UNCHANGED <<datos_imp, desempate, imp_por_marca, imp_por_marca_previo>>
    /\ UNCHANGED <<varsApi, varsCarga, varsLimpiar, varsVariaciones, varsMoM, varsYoY, varsFiltros,
                   varsArranque>>

\* the table is stored again with its rows in another order, and the page
\* is evaluated again
Reordenar ==
    /\ tpc = "fin"
    /\ imp_por_marca_previo = SinSerie
    /\ imp_por_marca_previo' = imp_por_marca
    /\ datos_imp' \in {DataFrame(datos_imp.columnas, q) : q \in Reordenadas(datos_imp.filas)}
    /\ imp_por_marca' = <<>>
    /\ comp_chinos_imp' = <<>>
    /\ participacion_chinos_imp' = 0
    /\ tpc' = "inicio"
    /\ UNCHANGED desempate
    /\ UNCHANGED <<varsApi, varsCarga, varsLimpiar, varsVariaciones, varsMoM, varsYoY, varsFiltros,
                   varsArranque>>

totales_por_marca ==
    \/ CalcularTopMarcas
    \/ CompetidoresChinos
    \/ Reordenar

-----------------------------------------------------------------------------
(* src/app.py: the date and brand filters of two pages *)

\* stored import rows of three days and two brands
FilasDeFiltro ==
    {<<f, Txt(m), Num(100)>> : f \in FechasRegistro, m \in {M_KIA, M_TOYOTA}}

RECURSIVE RegistrosDeFiltro(_)
RegistrosDeFiltro(n) ==
    IF n = 0 THEN {<<>>}
    ELSE RegistrosDeFiltro(n - 1) \cup
         {Append(h, r) : h \in {x \in RegistrosDeFiltro(n - 1) : Len(x) = n - 1},
                         r \in FilasDeFiltro}

\* the dates a date widget can return: from the first to the last stored day
RangosDeFechas ==
    {r \in [inicio : {x.n : x \in FechasRegistro}, fin : {x.n : x \in FechasRegistro}] :
        r.inicio <= r.fin}

\* d[(d[fecha].dt.date >= inicio) & (d[fecha].dt.date <= fin)]
EntreFechas(d, fecha, rango) ==
    DataFrame(d.columnas,
        SelectSeq(d.filas,
            LAMBDA f : /\ f[Pos(fecha, d.columnas)].t = "fecha"
                       /\ f[Pos(fecha, d.columnas)].n >= rango.inicio
                       /\ f[Pos(fecha, d.columnas)].n <= rango.fin))

\* d[d['Marca'].isin(marcas)] for a selection of brands
DeMarcas(d, marcas) ==
    DataFrame(d.columnas,
        SelectSeq(d.filas, LAMBDA f : f[Pos("Marca", d.columnas)].s \in marcas))

\* lines 474-481: the brands are filtered only when some brand is selected
FiltroResumen(d, fecha, rango, marcas) ==
    IF marcas # {} THEN DeMarcas(EntreFechas(d, fecha, rango), marcas)
    ELSE EntreFechas(d, fecha, rango)

\* lines 660-664
FiltroComparativos(d, fecha, rango, marcas) ==
    DeMarcas(EntreFechas(d, fecha, rango), marcas)

\* lines 593-609: the three columns, dates and amounts converted, amounts
\* zero-filled, rows without a date dropped
ImpClean(d) ==
    LET d1 == ConColumna(d, "Fecha",
                 [i \in 1..Len(d.filas) |-> ToDatetime(Celda(d, i, "Fecha"))])
        d2 == ConColumna(d1, col_valor_imp,
                 [i \in 1..Len(d.filas) |->
                     Fillna(ToNumeric(Celda(d1, i, col_valor_imp)), 0)])
    IN  Dropna(d2, "Fecha")

\* lines 472-495: the page Resumen General filters importaciones
FiltrarResumen ==
    /\ fpc = "inicio"
    /\ imp_filtrado_resumen' =
          FiltroResumen(imp_tabla, "Fecha", rango_fechas, marcas_seleccionadas)
    /\ fpc' = "resumen"
    /\ UNCHANGED <<imp_tabla, rango_fechas, marcas_seleccionadas, imp_filtrado_comparativos>>
    /\ UNCHANGED <<varsApi, varsCarga, varsLimpiar, varsVariaciones, varsMoM, varsYoY, varsMarcas,
                   varsArranque>>

\* lines 575-577 and 612-614: the page Comparativos Temporales stops on
\* empty data
DetenerComparativos ==
    /\ fpc = "resumen"
    /\ Len(ImpClean(imp_tabla).filas) = 0
    /\ fpc' = "detenido"
    /\ UNCHANGED <<imp_tabla, rango_fechas, marcas_seleccionadas, imp_filtrado_resumen,
                   imp_filtrado_comparativos>>
    /\ UNCHANGED <<varsApi, varsCarga, varsLimpiar, varsVariaciones, varsMoM, varsYoY, varsMarcas,
                   varsArranque>>

\* lines 593-670: the page Comparativos Temporales filters imp_clean with
\* the same dates and brands
FiltrarComparativos ==
    /\ fpc = "resumen"
    /\ Len(ImpClean(imp_tabla).filas) > 0
    /\ imp_filtrado_comparativos' =
          FiltroComparativos(ImpClean(imp_tabla), "Fecha", rango_fechas, marcas_seleccionadas)
    /\ fpc' = "fin"
    /\ UNCHANGED <<imp_tabla, rango_fechas, marcas_seleccionadas, imp_filtrado_resumen>>
    /\ UNCHANGED <<varsApi, varsCarga, varsLimpiar, varsVariaciones, varsMoM, varsYoY, varsMarcas,
                   varsArranque>>

filtros_de_pagina ==
    \/ FiltrarResumen
    \/ DetenerComparativos
    \/ FiltrarComparativos

-----------------------------------------------------------------------------
(* src/app.py: the script from its first line to its last, run after run *)

\* runs of the script
MaxEjecuciones == 3

\* what automotor.db can hold: nothing (a file that sqlite3 just created),
\* both tables, one table only, or bytes that are not a database
Contenidos == {"vacio", "completo", "incompleto", "basura"}

\* requests.get returned a response, or raised
Respuesta(estado, cuerpo) == [llega |-> TRUE, estado |-> estado, cuerpo |-> cuerpo]
SinRespuesta == [llega |-> FALSE, estado |-> 0, cuerpo |-> "basura"]

\* the database, a page that is not the database, error pages, no connection
Respuestas ==
    {Respuesta(200, "completo"), Respuesta(200, "basura"), Respuesta(404, "basura"),
     Respuesta(500, "basura"), SinRespuesta}

\* Response.raise_for_status() raises nothing
EsOk(r) == r.estado < 400

Evento(e) == eventos' = Append(eventos, e)

\* st.stop(), and an exception that nothing catches
Detener == apc' = "detenido"
Abortar == apc' = "error"

\* lines 376-385 with lines 58-113: cargar_datos() is the first access to
\* the database. A cached result is returned without touching the file;
\* otherwise sqlite3.connect creates the file when it is not there, and a
\* missing table (lines 68-76) or an error (lines 111-113) stops the run
CargarDatos ==
    /\ apc = "inicio"
    /\ IF cache
       THEN /\ cargadas' = TRUE
            /\ apc' = "verificar"
            /\ UNCHANGED <<automotor_db, cache, eventos>>
       ELSE /\ Evento("abrir")
            /\ automotor_db' = IF automotor_db = "ausente" THEN "vacio" ELSE automotor_db
            /\ IF automotor_db = "completo"
               THEN cargadas' = TRUE /\ cache' = TRUE /\ apc' = "verificar"
               ELSE Detener /\ UNCHANGED <<cargadas, cache>>
    /\ UNCHANGED <<secretos, respuesta, inicio_sin_archivo, ejecuciones>>
    /\ UNCHANGED <<varsApi, varsCarga, varsLimpiar, varsVariaciones, varsMoM, varsYoY, varsMarcas,
                   varsFiltros>>

\* line 387 with lines 39-55: verificar_base_y_tablas()
VerificarBase ==
    /\ apc = "verificar"
    /\ IF automotor_db = "ausente"
       THEN Detener /\ UNCHANGED eventos
       ELSE /\ Evento("abrir")
            /\ IF automotor_db = "completo" THEN apc' = "descargar" ELSE Detener
    /\ UNCHANGED <<automotor_db, cache, cargadas, secretos, respuesta,
                   inicio_sin_archivo, ejecuciones>>
    /\ UNCHANGED <<varsApi, varsCarga, varsLimpiar, varsVariaciones, varsMoM, varsYoY, varsMarcas,
                   varsFiltros>>

\* lines 453-456: raise_for_status() stands between the response and the file
Escribe(r) == EsOk(r)

\* lines 446-463: the first descargar_db and its call
DescargarDb ==
    /\ apc = "descargar"
    /\ IF ~secretos THEN Detener /\ UNCHANGED <<automotor_db, eventos>>
       ELSE IF automotor_db # "ausente"
       THEN apc' = "pagina" /\ UNCHANGED <<automotor_db, eventos>>
       ELSE /\ Evento("descargar")
            /\ IF respuesta.llega /\ Escribe(respuesta)
               THEN automotor_db' = respuesta.cuerpo /\ apc' = "pagina"
               ELSE Detener /\ UNCHANGED automotor_db
    /\ UNCHANGED <<cache, cargadas, secretos, respuesta, inicio_sin_archivo, ejecuciones>>
    /\ UNCHANGED <<varsApi, varsCarga, varsLimpiar, varsVariaciones, varsMoM, varsYoY, varsMarcas,
                   varsFiltros>>

\* lines 465-1612: the selected page; several of its branches end in st.stop()
Pagina ==
    /\ apc = "pagina"
    /\ \/ apc' = "descargar2"
       \/ Detener
    /\ UNCHANGED <<automotor_db, cache, cargadas, secretos, respuesta, eventos,
                   inicio_sin_archivo, ejecuciones>>
    /\ UNCHANGED <<varsApi, varsCarga, varsLimpiar, varsVariaciones, varsMoM, varsYoY, varsMarcas,
                   varsFiltros>>

\* lines 1614-1625: the second descargar_db and its call; nothing catches
\* the KeyError of st.secrets or an exception of requests.get
DescargarDb2 ==
    /\ apc = "descargar2"
    /\ IF ~secretos THEN Abortar /\ UNCHANGED <<automotor_db, eventos>>
       ELSE IF automotor_db # "ausente"
       THEN apc' = "fin" /\ UNCHANGED <<automotor_db, eventos>>
       ELSE /\ Evento("descargar")
            /\ IF respuesta.llega
               THEN automotor_db' = respuesta.cuerpo /\ apc' = "fin"
               ELSE Abortar /\ UNCHANGED automotor_db
    /\ UNCHANGED <<cache, cargadas, secretos, respuesta, inicio_sin_archivo, ejecuciones>>
    /\ UNCHANGED <<varsApi, varsCarga, varsLimpiar, varsVariaciones, varsMoM, varsYoY, varsMarcas,
                   varsFiltros>>

\* Streamlit runs the script again, in the same server process or, after a
\* restart, in a new one whose cache is empty
Ejecutar ==
    /\ apc \in {"detenido", "error", "fin"}
    /\ ejecuciones < MaxEjecuciones
    /\ ejecuciones' = ejecuciones + 1
    /\ apc' = "inicio"
    /\ cargadas' = FALSE
    /\ eventos' = <<>>
    /\ inicio_sin_archivo' = (automotor_db = "ausente")
    /\ respuesta' \in Respuestas
    /\ \E reinicio \in BOOLEAN : cache' = (cache /\ ~reinicio)
    /\ UNCHANGED <<automotor_db, secretos>>
    /\ UNCHANGED <<varsApi, varsCarga, varsLimpiar, varsVariaciones, varsMoM, varsYoY, varsMarcas,
                   varsFiltros>>

\* something other than the script removes the file
BorrarArchivo ==
    /\ apc \in {"inicio", "verificar", "descargar", "pagina", "descargar2"}
    /\ automotor_db # "ausente"
    /\ automotor_db' = "ausente"
    /\ UNCHANGED <<apc, cache, cargadas, secretos, respuesta, eventos,
                   inicio_sin_archivo, ejecuciones>>
    /\ UNCHANGED <<varsApi, varsCarga, varsLimpiar, varsVariaciones, varsMoM, varsYoY, varsMarcas,
                   varsFiltros>>

tablero ==
    \/ CargarDatos
    \/ VerificarBase
    \/ DescargarDb
    \/ Pagina
    \/ DescargarDb2
    \/ Ejecutar
    \/ BorrarArchivo

-----------------------------------------------------------------------------
(* Components that a specification does not run *)

InerteCarga ==
    /\ cpc = "inactivo"
    /\ archivos = [imp |-> Archivo(FALSE, FALSE, DataFrameVacio),
                   mat |-> Archivo(FALSE, FALSE, DataFrameVacio)]
    /\ df_import = DataFrameVacio /\ df_matric = DataFrameVacio
    /\ db = DbVacia /\ retorno = "ninguno"
    /\ corrida = 0 /\ db_antes = DbVacia /\ previa = SinPrevia
    /\ na_como_texto = TRUE

InerteLimpiar ==
    /\ lpc = "inactivo" /\ lcol = 0 /\ df = DataFrameVacio /\ columnas = <<>>
    /\ df_clean = DataFrameVacio

InerteVariaciones ==
    /\ vpc = "inactivo" /\ df_comp = DataFrameVacio /\ fill_method = "pad"
    /\ df_var = DataFrameVacio /\ df_ret = DataFrameVacio
    /\ graficos = SinGraficos

InerteMoM ==
    /\ mpc = "inactivo"
    /\ imp_filtrado = DataFrameVacio /\ mat_filtrado = DataFrameVacio
    /\ imp_mensual = DataFrameVacio /\ mat_mensual = DataFrameVacio
    /\ imp_agg = DataFrameVacio /\ mat_agg = DataFrameVacio

InerteYoY ==
    /\ ypc = "inactivo"
    /\ importaciones = DataFrameVacio /\ matriculaciones = DataFrameVacio
    /\ imp_yoy_df = DataFrameVacio /\ mat_yoy_df = DataFrameVacio
    /\ anio_seleccionado_yoy = 0 /\ mes_seleccionado_yoy = 0
    /\ imp_yoy_agg = DataFrameVacio /\ mat_yoy_agg = DataFrameVacio
    /\ imp_comparacion = DataFrameVacio /\ mat_comparacion = DataFrameVacio
    /\ top_marcas_grafico = <<>>
    /\ orden_de_hash = MarcasOrdenadas
    /\ evaluacion_previa = SinEvaluacion

InerteMarcas ==
    /\ tpc = "inactivo" /\ datos_imp = DataFrameVacio /\ desempate = "estable"
    /\ imp_por_marca = <<>> /\ comp_chinos_imp = <<>>
    /\ participacion_chinos_imp = 0 /\ imp_por_marca_previo = SinSerie

InerteFiltros ==
    /\ fpc = "inactivo" /\ imp_tabla = DataFrameVacio
    /\ rango_fechas = [inicio |-> 0, fin |-> 0] /\ marcas_seleccionadas = {}
    /\ imp_filtrado_resumen = DataFrameVacio
    /\ imp_filtrado_comparativos = DataFrameVacio

InerteArranque ==
    /\ apc = "inactivo" /\ automotor_db = "ausente" /\ cache = FALSE
    /\ cargadas = FALSE /\ secretos = TRUE /\ respuesta = Respuesta(200, "completo")
    /\ eventos = <<>> /\ inicio_sin_archivo = FALSE /\ ejecuciones = 0

InertePaginas == InerteMarcas /\ InerteFiltros /\ InerteArranque

InerteTablero == InerteVariaciones /\ InerteMoM /\ InerteYoY /\ InertePaginas

-----------------------------------------------------------------------------
(* The remote query client on its own *)

InitApi ==
    /\ pc = "inicio"
    /\ datos \in DatosPosibles
    /\ pregunta \in Preguntas
    /\ https \in BOOLEAN
    /\ payload = <<>>
    /\ intento = 0
    /\ posts = 0
    /\ conexiones = 0
    /\ esperas = <<>>
    /\ ultimo = SinIntento
    /\ resultado = SinResultado
    /\ InerteCarga
    /\ InerteLimpiar
    /\ InerteTablero

NextApi == consultar_magic_loops

SpecApi == InitApi /\ [][NextApi]_vars

-----------------------------------------------------------------------------
(* The loader on its own *)

InitCarga ==
    /\ cpc = "inicio"
    /\ archivos \in ArchivosPosibles
    /\ df_import = DataFrameVacio
    /\ df_matric = DataFrameVacio
    /\ db \in {DbVacia, DbPrevia}
    /\ retorno = "ninguno"
    /\ corrida = 1
    /\ db_antes = db
    /\ previa = SinPrevia
    /\ na_como_texto \in BOOLEAN
    /\ InerteApi
    /\ InerteLimpiar
    /\ InerteTablero

NextCarga == cargar_datos

SpecCarga == InitCarga /\ [][NextCarga]_vars

-----------------------------------------------------------------------------
(* The numeric cleaner on its own *)

InitLimpiar ==
    /\ lpc = "inicio"
    /\ lcol = 0
    /\ df \in DataFramesLimpiar
    /\ columnas \in ColumnasLimpiar
    /\ df_clean = DataFrameVacio
    /\ InerteApi
    /\ InerteCarga
    /\ InerteTablero

NextLimpiar == limpiar_columnas_numericas

SpecLimpiar == InitLimpiar /\ [][NextLimpiar]_vars

-----------------------------------------------------------------------------
(* The variation columns on their own *)

\* Series.pct_change fills with 'pad' by default up to pandas 2.x and does
\* not fill from pandas 3.0 on; the repository pins no version
InitVariaciones ==
    /\ vpc = "inicio"
    /\ df_comp \in DataFramesComparativos
    /\ fill_method \in {"pad", "ninguno"}
    /\ df_var = DataFrameVacio
    /\ df_ret = DataFrameVacio
    /\ graficos = SinGraficos
    /\ InerteApi
    /\ InerteCarga
    /\ InerteLimpiar
    /\ InertePaginas
    /\ InerteMoM
    /\ InerteYoY

NextVariaciones == crear_graficos_variaciones

SpecVariaciones == InitVariaciones /\ [][NextVariaciones]_vars

-----------------------------------------------------------------------------
(* The monthly comparison per brand on its own *)

InitMoM ==
    /\ mpc = "inicio"
    /\ \E t \in TablasPosibles : imp_filtrado = t.imp /\ mat_filtrado = t.mat
    /\ imp_mensual = DataFrameVacio /\ mat_mensual = DataFrameVacio
    /\ imp_agg = DataFrameVacio /\ mat_agg = DataFrameVacio
    /\ InerteApi
    /\ InerteCarga
    /\ InerteLimpiar
    /\ InertePaginas
    /\ InerteVariaciones
    /\ InerteYoY

NextMoM == comparativos_mensuales

SpecMoM == InitMoM /\ [][NextMoM]_vars

-----------------------------------------------------------------------------
(* The year-over-year comparison on its own *)

InitYoY ==
    /\ ypc = "inicio"
    /\ \E t \in TablasPosibles : importaciones = t.imp /\ matriculaciones = t.mat
    /\ imp_yoy_df = DataFrameVacio /\ mat_yoy_df = DataFrameVacio
    /\ anio_seleccionado_yoy = 0 /\ mes_seleccionado_yoy = 0
    /\ imp_yoy_agg = DataFrameVacio /\ mat_yoy_agg = DataFrameVacio
    /\ imp_comparacion = DataFrameVacio /\ mat_comparacion = DataFrameVacio
    /\ top_marcas_grafico = <<>>
    /\ orden_de_hash \in OrdenesDeMarcas
    /\ evaluacion_previa = SinEvaluacion
    /\ InerteApi
    /\ InerteCarga
    /\ InerteLimpiar
    /\ InertePaginas
    /\ InerteVariaciones
    /\ InerteMoM

NextYoY == comparacion_yoy

SpecYoY == InitYoY /\ [][NextYoY]_vars

-----------------------------------------------------------------------------
(* The year-over-year comparison evaluated twice *)

\* imports of two brands in January of two years, or no imports at all, next
\* to the fixed registrations
TablasDeReevaluacion ==
    {[imp |-> Importaciones(<<<<Fecha(20240105), Txt(M_KIA), Num(a)>>,
                              <<Fecha(20240105), Txt(M_TOYOTA), Num(b)>>,
                              <<Fecha(20230110), Txt(m), Num(c)>>>>),
      mat |-> Matriculaciones(FilasFijas)] :
        a \in ImportesRegistro, b \in ImportesRegistro, c \in ImportesRegistro,
        m \in {M_KIA, M_TOYOTA}}
    \cup {[imp |-> Importaciones(<<>>), mat |-> Matriculaciones(FilasFijas)]}

InitReevaluacion ==
    /\ ypc = "inicio"
    /\ \E t \in TablasDeReevaluacion : importaciones = t.imp /\ matriculaciones = t.mat
    /\ imp_yoy_df = DataFrameVacio /\ mat_yoy_df = DataFrameVacio
    /\ anio_seleccionado_yoy = 0 /\ mes_seleccionado_yoy = 0
    /\ imp_yoy_agg = DataFrameVacio /\ mat_yoy_agg = DataFrameVacio
    /\ imp_comparacion = DataFrameVacio /\ mat_comparacion = DataFrameVacio
    /\ top_marcas_grafico = <<>>
    /\ orden_de_hash \in OrdenesDeMarcas
    /\ evaluacion_previa = SinEvaluacion
    /\ InerteApi
    /\ InerteCarga
    /\ InerteLimpiar
    /\ InertePaginas
    /\ InerteVariaciones
    /\ InerteMoM

NextReevaluacion == comparacion_yoy_repetida

SpecReevaluacion == InitReevaluacion /\ [][NextReevaluacion]_vars

-----------------------------------------------------------------------------
(* The totals per brand on their own *)

InitMarcas ==
    /\ tpc = "inicio"
    /\ datos_imp \in DatosPosibles_imp
    /\ desempate \in {"estable", "inestable"}
    /\ imp_por_marca = <<>>
    /\ comp_chinos_imp = <<>>
    /\ participacion_chinos_imp = 0
    /\ imp_por_marca_previo = SinSerie
    /\ InerteApi
    /\ InerteCarga
    /\ InerteLimpiar
    /\ InerteVariaciones
    /\ InerteMoM
    /\ InerteYoY
    /\ InerteFiltros
    /\ InerteArranque

NextMarcas == totales_por_marca

SpecMarcas == InitMarcas /\ [][NextMarcas]_vars

-----------------------------------------------------------------------------
(* The filters on their own *)

InitFiltros ==
    /\ fpc = "inicio"
    /\ imp_tabla \in {Importaciones(q) : q \in RegistrosDeFiltro(MaxRegistros)}
    /\ rango_fechas \in RangosDeFechas
    /\ marcas_seleccionadas \in SUBSET {M_KIA, M_TOYOTA}
    /\ imp_filtrado_resumen = DataFrameVacio
    /\ imp_filtrado_comparativos = DataFrameVacio
    /\ InerteApi
    /\ InerteCarga
    /\ InerteLimpiar
    /\ InerteVariaciones
    /\ InerteMoM
    /\ InerteYoY
    /\ InerteMarcas
    /\ InerteArranque

NextFiltros == filtros_de_pagina

SpecFiltros == InitFiltros /\ [][NextFiltros]_vars

-----------------------------------------------------------------------------
(* The runs of the script on their own *)

InitArranque ==
    /\ apc = "inicio"
    /\ automotor_db \in {"ausente"} \cup Contenidos
    /\ cache = FALSE
    /\ cargadas = FALSE
    /\ secretos \in BOOLEAN
    /\ respuesta \in Respuestas
    /\ eventos = <<>>
    /\ inicio_sin_archivo = (automotor_db = "ausente")
    /\ ejecuciones = 1
    /\ InerteApi
    /\ InerteCarga
    /\ InerteLimpiar
    /\ InerteVariaciones
    /\ InerteMoM
    /\ InerteYoY
    /\ InerteMarcas
    /\ InerteFiltros

NextArranque == tablero

SpecArranque == InitArranque /\ [][NextArranque]_vars

-----------------------------------------------------------------------------
(* Properties of consultar_magic_loops, checked under SpecApi *)

Terminada == pc = "fin"

\* how the latest attempt ended
UltimoFueStatus == ultimo.estado # 0
UltimoFueTimeout == ultimo.estado = 0 /\ ultimo.excepcion \in ErroresTimeout
UltimoFueTransporte == ultimo.estado = 0 /\ ultimo.excepcion \in ErroresTransporte
UltimoFue200Malformado == ultimo.estado = 200 /\ ~EsJson(ultimo.cuerpo)
UltimoFue200Valido == ultimo.estado = 200 /\ EsJson(ultimo.cuerpo)

C2_TamanoValidado ==
    (pc # "inicio" /\ datos.serializable) =>
        /\ TamJson(payload) > 500000 =>
              /\ Terminada
              /\ resultado = Error("grande", 0)
              /\ posts = 0
              /\ conexiones = 0
        /\ TamJson(payload) <= 500000 => resultado # Error("grande", 0)

\* C2 witness: a call rejected only because the attached question pushed the
\* payload over the ceiling
C2_Testigo ==
    /\ Terminada
    /\ resultado = Error("grande", 0)
    /\ TamJson(PayloadBase(datos)) <= 500000
    /\ posts = 0

\* C3: the waits are 1s before attempt 2 and 2s before attempt 3; every
\* further attempt is preceded by its wait, no wait follows the attempt that
\* ends the call, and a third HTTP 500 ends the call with waits 1s, 2s and the
\* HTTP-500 error.
C3_Esperas ==
    /\ Len(esperas) <= 2
    /\ esperas = SubSeq(<<1, 2>>, 1, Len(esperas))
    /\ (pc = "intentar" => Len(esperas) = posts)
    /\ (Terminada /\ posts > 0 => Len(esperas) = posts - 1)
    /\ (Terminada /\ posts = 3 /\ ultimo.estado = 500 =>
            esperas = <<1, 2>> /\ resultado = Error("http", 500))

\* C3 witness: the third HTTP 500 in a row has been answered
C3_Testigo ==
    Terminada /\ posts = 3 /\ ultimo.estado = 500 /\ esperas = <<1, 2>>

\* C4: an HTTP 200 whose body is no JSON short-circuits the call: an error is
\* returned at once, with no further attempt and no backoff wait.
C4_MalformadoCortocircuita ==
    UltimoFue200Malformado =>
        /\ Terminada
        /\ resultado.tipo = "error"
        /\ Len(esperas) = posts - 1

\* C5 as stated: a further attempt follows only a non-2xx status, a timeout
\* or a transport failure; no 2xx answer is followed by another attempt, and
\* HTTP 200 ends the call with the parsed body. (Stated for answers other
\* than a 200 whose body is no JSON, which C4 is about.)
C5_Original ==
    ~UltimoFue200Malformado =>
        /\ (pc = "intentar" /\ posts > 0) =>
               \/ (UltimoFueStatus /\ ultimo.estado \notin 200..299)
               \/ UltimoFueTimeout
               \/ UltimoFueTransporte
        /\ (ultimo.estado \in 200..299 => Terminada)
        /\ (ultimo.estado = 200 => resultado = Exito(Json(ultimo.cuerpo)))

\* C5 amended: a further attempt follows only a status other than 200, a
\* timeout or a RequestException (a transport failure, or the JSON decode
\* error of requests >= 2.27 on a 200 body); an HTTP 200 whose body parses is
\* never followed by another attempt and ends the call with the parsed body.
C5_Reintentos ==
    /\ (pc = "intentar" /\ posts > 0) =>
           \/ (UltimoFueStatus /\ ultimo.estado # 200)
           \/ UltimoFueTimeout
           \/ UltimoFueTransporte
           \/ (UltimoFue200Malformado /\ ultimo.excepcion = "JSONDecodeError")
    /\ (UltimoFue200Valido =>
            Terminada /\ resultado = Exito(Json(ultimo.cuerpo)))

\* C5 witness: a second attempt is due after a 201 answer
C5_Testigo == pc = "intentar" /\ posts = 1 /\ ultimo.estado = 201

\* C6: when the third attempt fails, the error names the cause of that
\* attempt alone: its HTTP status, a timeout, or a connection failure.
C6_CausaFinal ==
    (Terminada /\ posts = 3) =>
        /\ (UltimoFueStatus /\ ultimo.estado # 200 =>
                resultado = Error("http", ultimo.estado))
        /\ (UltimoFueTimeout => resultado = Error("timeout", 0))
        /\ (UltimoFueTransporte => resultado = Error("conexion", 0))

\* C6 witness: the third attempt timed out after two attempts that waited
C6_Testigo ==
    /\ Terminada /\ posts = 3 /\ UltimoFueTimeout
    /\ resultado = Error("timeout", 0) /\ esperas = <<1, 2>>

\* C7: the call never raises to its caller: it always ends with a result
\* value, the success document or an error value.
C7_NuncaLanza ==
    /\ pc # "excepcion"
    /\ (Terminada => resultado.tipo \in {"ok", "error"})

\* C8: the call sets payload["pregunta"] exactly when the question is
\* non-empty after trimming, to the trimmed question; a missing, empty or
\* blank question leaves the payload the plain copy of datos.
C8_PreguntaAdjunta ==
    pc # "inicio" =>
        IF ~pregunta.nulo /\ Strip(pregunta.s) # <<>>
        THEN /\ "pregunta" \in DOMAIN payload
             /\ payload["pregunta"] = Cadena(Strip(pregunta.s))
             /\ \A k \in DOMAIN payload \ {"pregunta"} :
                    k \in DOMAIN PayloadBase(datos) /\ payload[k] = PayloadBase(datos)[k]
        ELSE /\ payload = PayloadBase(datos)
             /\ (~datos.previa => "pregunta" \notin DOMAIN payload)

\* C8 witness: a question with surrounding blanks was attached trimmed
C8_Testigo ==
    /\ pc # "inicio"
    /\ ~pregunta.nulo /\ pregunta.s # Strip(pregunta.s)
    /\ "pregunta" \in DOMAIN payload
    /\ payload["pregunta"] = Cadena(<<"a">>)

-----------------------------------------------------------------------------
(* Properties of cargar_datos, checked under SpecCarga *)

CargaExitosa == cpc = "fin" /\ retorno = "True"

\* the datetime a valid raw date cell stands for
FechaEsperada(c) == IF c = Txt(T_fechaIso) THEN Fecha(20241105) ELSE c

\* the dates a table must hold: those of the raw rows whose date is valid,
\* in the order of the sheet
FechasEsperadas(hoja, c) ==
    LET validas == SelectSeq(Columna(hoja, c), LAMBDA x : x \in FechasValidas)
    IN  [i \in 1..Len(validas) |-> FechaEsperada(validas[i])]

\* C9: after a successful load no persisted row of either table has a null
\* date: the rows kept are exactly the raw rows whose date parses, in order.
C9_SinFechasNulas ==
    CargaExitosa =>
        /\ \A i \in 1..Len(db.IMPORT_2019_2024.filas) :
              Celda(db.IMPORT_2019_2024, i, "Fecha").t = "fecha"
        /\ \A i \in 1..Len(db.MATRICULACION_ANUAL_.filas) :
              Celda(db.MATRICULACION_ANUAL_, i, "fecha").t = "fecha"
        /\ Columna(db.IMPORT_2019_2024, "Fecha") = FechasEsperadas(archivos.imp.hoja, "Fecha")
        /\ Columna(db.MATRICULACION_ANUAL_, "fecha") = FechasEsperadas(archivos.mat.hoja, "fecha")

\* C9 witness: a load that dropped a row with an unparseable date and kept a
\* row with a parseable one
C9_Testigo ==
    /\ CargaExitosa
    /\ Len(archivos.imp.hoja.filas) = 2
    /\ Len(db.IMPORT_2019_2024.filas) = 1
    /\ Celda(archivos.imp.hoja, 1, "Fecha") = Txt(T_nd)
    /\ Celda(db.IMPORT_2019_2024, 1, "Fecha") = Fecha(20241105)

\* the amount a raw amount cell must be normalized to
ValorEsperado(c) ==
    CASE c \in ValoresInvalidos -> Num(0)
      [] c = Txt(T_12) -> Num(12)
      [] OTHER -> c

\* the raw rows of a sheet whose date is valid
FilasConFecha(hoja, c) ==
    SelectSeq(hoja.filas, LAMBDA f : f[Pos(c, hoja.columnas)] \in FechasValidas)

\* C10, loader half: every row with a valid date is kept whatever its amount,
\* and its persisted amount is a number, 0 when the raw amount is not numeric,
\* empty or missing.
C10_CargaRellenaCeros ==
    CargaExitosa =>
        /\ TieneColumna(archivos.imp.hoja, "Valor") =>
              LET crudas == FilasConFecha(archivos.imp.hoja, "Fecha")
                  j == Pos("Valor", archivos.imp.hoja.columnas)
              IN  Columna(db.IMPORT_2019_2024, "Valor") =
                      [i \in 1..Len(crudas) |-> ValorEsperado(crudas[i][j])]
        /\ \A c \in {"valor", "Valor", "VALOR"} :
              TieneColumna(archivos.mat.hoja, c) =>
                  LET crudas == FilasConFecha(archivos.mat.hoja, "fecha")
                      j == Pos(c, archivos.mat.hoja.columnas)
                  IN  Columna(db.MATRICULACION_ANUAL_, "VALOR") =
                          [i \in 1..Len(crudas) |-> ValorEsperado(crudas[i][j])]

\* a load that kept a row whose amount was zero-filled
C10_CargaTestigo ==
    /\ CargaExitosa
    /\ Len(db.IMPORT_2019_2024.filas) = 1
    /\ Len(archivos.imp.hoja.filas) = 1
    /\ TieneColumna(archivos.imp.hoja, "Valor")
    /\ Celda(archivos.imp.hoja, 1, "Valor") = Txt(T_abc)
    /\ Celda(db.IMPORT_2019_2024, 1, "Valor") = Num(0)

-----------------------------------------------------------------------------
(* Properties of limpiar_columnas_numericas, checked under SpecLimpiar *)

\* C10: amount normalization maps every raw amount that is not numeric,
\* empty or missing to exactly 0 and never yields NaN, keeping the row; here
\* for the column Valor cleaned by limpiar_columnas_numericas.
C10_SinNaN ==
    (lpc = "fin" /\ EnSeq("Valor", columnas)) =>
        /\ Len(df_clean.filas) = Len(df.filas)
        /\ \A i \in 1..Len(df.filas) :
              /\ Celda(df_clean, i, "Valor").t = "num"
              /\ Celda(df, i, "Valor") \in ValoresInvalidos =>
                    Celda(df_clean, i, "Valor") = Num(0)

-----------------------------------------------------------------------------
(* Properties of calcular_variaciones_seguras, checked under SpecVariaciones *)

\* the call returned the frame with its variation columns
VariacionesDevueltas == vpc \in {"fin", "devuelto"} /\ TieneColumna(df_ret, "MoM_Imp")

\* variation column, the column it is computed from, and its lag
Variaciones ==
    { <<"YoY_Imp", valor_imp_col, 12>>, <<"YoY_Mat", valor_mat_col, 12>>,
      <<"MoM_Imp", valor_imp_col, 1>>,  <<"MoM_Mat", valor_mat_col, 1>>,
      <<"QoQ_Imp", valor_imp_col, 3>>,  <<"QoQ_Mat", valor_mat_col, 3>> }

\* C11: in the frame returned to the caller, every variation column holds
\* the "no data" marker (a missing value, never 0 or another number) at
\* every position whose lag reference is zero or does not exist.
C11_SinDatoMarcado ==
    VariacionesDevueltas =>
        \A v \in Variaciones : \A i \in 1..Len(df_ret.filas) :
            (i <= v[3] \/ Celda(df_comp, i - v[3], v[2]) = Num(0))
                => EsFaltante(Celda(df_ret, i, v[1]))

\* C12: for the imports series [100, 0, 150] the month-over-month column,
\* from the moment it is computed, is "no data" at its three positions: it
\* reports no 0 %, 50 %, -100 % or infinity.
C12_Escenario ==
    (/\ vpc \in {"qoq", "limpieza", "fin"}
     /\ TieneColumna(df_var, "MoM_Imp")
     /\ Columna(df_comp, valor_imp_col) = <<Num(100), Num(0), Num(150)>>)
        => \A i \in 1..3 : EsFaltante(Celda(df_var, i, "MoM_Imp"))

\* C13: in the frame returned to the caller, at every position whose lag
\* reference exists and is not zero, each variation column is
\* (s[i] - s[i-lag]) / s[i-lag] * 100, also where s[i] is zero.
C13_FormulaDeVariacion ==
    VariacionesDevueltas =>
        \A v \in Variaciones : \A i \in 1..Len(df_ret.filas) :
            (i > v[3] /\ Celda(df_comp, i - v[3], v[2]) # Num(0))
                => Celda(df_ret, i, v[1]) =
                      Num((100 * (Celda(df_comp, i, v[2]).n - Celda(df_comp, i - v[3], v[2]).n))
                              \div Celda(df_comp, i - v[3], v[2]).n)

-----------------------------------------------------------------------------
(* Properties of the monthly comparison per brand, checked under SpecMoM *)

\* C14: once computed, the column MoM_% of the per-brand monthly tables
\* holds no infinite value (a brand whose previous month totals zero gets
\* "no data" or another finite value).
C14_MoMFinito ==
    mpc = "fin" =>
        /\ \A i \in 1..Len(imp_agg.filas) : Celda(imp_agg, i, "MoM_%").t # "inf"
        /\ \A i \in 1..Len(mat_agg.filas) : Celda(mat_agg, i, "MoM_%").t # "inf"

-----------------------------------------------------------------------------
(* Properties of the year-over-year comparison, checked under SpecYoY *)

\* v(Y, M) of a brand: the total of the cleaned rows of that year and month
TotalMes(d, valor, marca, anio, mes) ==
    SumaGrupo(d, valor, <<marca, <<anio, mes>>>>, Len(d.filas))

\* the variation the comparison must report for a brand when the previous
\* year's total counts as usable
VariacionEsperada(d, valor, marca, usable) ==
    LET actual == TotalMes(d, valor, marca, anio_seleccionado_yoy, mes_seleccionado_yoy)
        anterior == TotalMes(d, valor, marca, anio_seleccionado_yoy - 1, mes_seleccionado_yoy)
    IN  IF usable[anterior] THEN Num((100 * (actual - anterior)) \div anterior)
        ELSE Num(0)

NoCero == [v \in -1000..1000 |-> v # 0]
Positivo == [v \in -1000..1000 |-> v > 0]

\* C15 as stated: for the selected year and month, each brand's variation
\* is (v(Y,M) - v(Y-1,M)) / v(Y-1,M) * 100 when v(Y-1,M) is present and not
\* zero, and 0 when it is zero or missing; it is never infinite.
C15_Original ==
    ypc = "fin" =>
        /\ \A i \in 1..Len(imp_comparacion.filas) :
              Celda(imp_comparacion, i, "Variacion_YoY") =
                 VariacionEsperada(imp_yoy_df, col_valor_imp,
                                   Celda(imp_comparacion, i, "Marca").s, NoCero)
        /\ \A i \in 1..Len(mat_comparacion.filas) :
              Celda(mat_comparacion, i, "Variacion_YoY") =
                 VariacionEsperada(mat_yoy_df, col_valor_mat,
                                   Celda(mat_comparacion, i, "Marca").s, NoCero)

\* C15 amended: each brand's variation is (v(Y,M) - v(Y-1,M)) / v(Y-1,M) * 100
\* when v(Y-1,M) is present and positive, and 0 when it is zero, negative or
\* missing; it is never infinite, and the section raises only when the
\* imports table is empty, before the comparison is built.
C15_VariacionYoY ==
    /\ ypc = "error" => Len(imp_yoy_df.filas) = 0
    /\ ypc = "fin" =>
        /\ \A i \in 1..Len(imp_comparacion.filas) :
              /\ Celda(imp_comparacion, i, "Variacion_YoY").t = "num"
              /\ Celda(imp_comparacion, i, "Variacion_YoY") =
                    VariacionEsperada(imp_yoy_df, col_valor_imp,
                                      Celda(imp_comparacion, i, "Marca").s, Positivo)
        /\ \A i \in 1..Len(mat_comparacion.filas) :
              /\ Celda(mat_comparacion, i, "Variacion_YoY").t = "num"
              /\ Celda(mat_comparacion, i, "Variacion_YoY") =
                    VariacionEsperada(mat_yoy_df, col_valor_mat,
                                      Celda(mat_comparacion, i, "Marca").s, Positivo)

\* a registrations brand with a positive total a year before and a different
\* total now, and an imports brand without any total a year before
C15_Testigo ==
    /\ ypc = "fin"
    /\ \E i \in 1..Len(mat_comparacion.filas) :
          /\ Celda(mat_comparacion, i, "Valor_Anterior").n > 0
          /\ Celda(mat_comparacion, i, "Variacion_YoY") = Num(-100)
    /\ \E i \in 1..Len(imp_comparacion.filas) :
          /\ Celda(imp_comparacion, i, "Valor_Anterior").n = 0
          /\ Celda(imp_comparacion, i, "Valor_Actual").n # 0
          /\ Celda(imp_comparacion, i, "Variacion_YoY") = Num(0)

-----------------------------------------------------------------------------
(* Properties of repeated and failed loads, checked under SpecCarga *)

\* a workbook is not on disk
FaltaArchivo(a) == ~a.imp.existe \/ ~a.mat.existe
\* both workbooks are on disk and one of them cannot be read
ArchivoIlegible(a) ==
    a.imp.existe /\ a.mat.existe /\ (~a.imp.legible \/ ~a.mat.legible)

\* C16: a run of the loader on the sources of a run that succeeded keeps
\* both tables, at every step, as that first run left them (replaced by
\* equal ones, no row duplicated), and when it succeeds too the whole
\* storage is identical to the one the first run left.
C16_Idempotente ==
    (corrida >= 2 /\ previa.archivos = archivos /\ previa.retorno = "True") =>
        /\ db.IMPORT_2019_2024 = db_antes.IMPORT_2019_2024
        /\ db.MATRICULACION_ANUAL_ = db_antes.MATRICULACION_ANUAL_
        /\ retorno = "True" => db = db_antes

\* a second successful run over a table that has rows
C16_Testigo ==
    /\ corrida = 2
    /\ previa.archivos = archivos
    /\ previa.retorno = "True"
    /\ CargaExitosa
    /\ Len(db.IMPORT_2019_2024.filas) = 2
    /\ Len(db.MATRICULACION_ANUAL_.filas) = 1
    /\ db.indices = IndicesImport \cup IndicesMatric

\* C17: a run that fails, whatever the reason, has written or replaced
\* neither canonical table.
C17_FalloSinEscritura ==
    (cpc = "fin" /\ retorno = "False") =>
        /\ db.IMPORT_2019_2024 = db_antes.IMPORT_2019_2024
        /\ db.MATRICULACION_ANUAL_ = db_antes.MATRICULACION_ANUAL_

\* C18: the result of a run that fails on a missing workbook differs from
\* the result of a run that fails on a workbook that is there but cannot be
\* read, so the caller can tell the two failures apart.
C18_FallosDistinguibles ==
    (/\ corrida >= 2
     /\ cpc = "fin"
     /\ \/ FaltaArchivo(previa.archivos) /\ ArchivoIlegible(archivos)
        \/ ArchivoIlegible(previa.archivos) /\ FaltaArchivo(archivos))
        => retorno # previa.retorno

\* C19: after a successful load of a sheet that has no amount column at
\* all, the persisted table has the canonical amount column, 0 in every row.
C19_ValorAusenteEsCero ==
    CargaExitosa =>
        /\ ~TieneColumna(archivos.imp.hoja, "Valor") =>
              /\ TieneColumna(db.IMPORT_2019_2024, "Valor")
              /\ \A i \in 1..Len(db.IMPORT_2019_2024.filas) :
                    Celda(db.IMPORT_2019_2024, i, "Valor") = Num(0)
        /\ (\A c \in {"valor", "Valor", "VALOR"} : ~TieneColumna(archivos.mat.hoja, c)) =>
              /\ TieneColumna(db.MATRICULACION_ANUAL_, "VALOR")
              /\ \A i \in 1..Len(db.MATRICULACION_ANUAL_.filas) :
                    Celda(db.MATRICULACION_ANUAL_, i, "VALOR") = Num(0)

\* the registrations sheet has one amount column, and it is named c
UnicaColumnaDeValor(hoja, c) ==
    /\ Veces(c, hoja.columnas) = 1
    /\ \A o \in {"valor", "Valor", "VALOR"} \ {c} : ~TieneColumna(hoja, o)

-----------------------------------------------------------------------------
(* Persisted brands, checked under SpecCarga *)

\* is a raw brand cell empty or missing
MarcaVacia(c) == c.t \in {"nulo", "nan"} \/ (c.t = "str" /\ Strip(c.s) = <<>>)

\* the persisted brands of a table next to the raw brand cells they come from
MarcasCrudas(hoja, c) ==
    LET crudas == FilasConFecha(hoja, c)
        j == Pos("Marca", hoja.columnas)
    IN  [i \in 1..Len(crudas) |-> crudas[i][j]]

\* the persisted brands that come from empty or missing raw brands
Centinelas(tabla, crudas) ==
    {Celda(tabla, i, "Marca") : i \in {k \in 1..Len(crudas) : MarcaVacia(crudas[k])}}

\* a table's rows are the raw rows with a date, and a raw brand with text in
\* it is persisted trimmed and upper-cased
MarcasNormalizadas(tabla, crudas) ==
    /\ Len(tabla.filas) = Len(crudas)
    /\ \A i \in 1..Len(crudas) :
          ~MarcaVacia(crudas[i]) =>
              Celda(tabla, i, "Marca") = Txt(Upper(Strip(crudas[i].s)))

\* C21: every persisted brand is the raw brand text trimmed and upper-cased,
\* and a raw brand that is empty or missing becomes one fixed sentinel
\* string, never NULL and never the empty string.
C21_MarcaNormalizada ==
    CargaExitosa =>
        LET imp == MarcasCrudas(archivos.imp.hoja, "Fecha")
            mat == MarcasCrudas(archivos.mat.hoja, "fecha")
            centinelas == Centinelas(db.IMPORT_2019_2024, imp)
                          \cup Centinelas(db.MATRICULACION_ANUAL_, mat)
        IN  /\ MarcasNormalizadas(db.IMPORT_2019_2024, imp)
            /\ MarcasNormalizadas(db.MATRICULACION_ANUAL_, mat)
            /\ \A c \in centinelas : c.t = "str" /\ c.s # <<>>
            /\ Cardinality(centinelas) <= 1

-----------------------------------------------------------------------------
(* The reference month of MoM_%, checked under SpecMoM *)

\* the calendar month before month m of year a
MesPrevio(a, m) == IF m = 1 THEN <<a - 1, 12>> ELSE <<a, m - 1>>

\* the total of the brand of row i in the calendar month before that row's
\* month, missing when the brand has no row for that month
ReferenciaEsperada(d, valor, i) ==
    LET p == MesPrevio(Celda(d, i, "Año").n, Celda(d, i, "Mes").n)
        previas == {j \in 1..Len(d.filas) :
                      /\ Celda(d, j, "Marca") = Celda(d, i, "Marca")
                      /\ <<Celda(d, j, "Año").n, Celda(d, j, "Mes").n>> = p}
    IN  IF previas = {} THEN NaN ELSE Celda(d, CHOOSE j \in previas : TRUE, valor)

\* the MoM columns of a table take the preceding calendar month as reference
ReferenciaMesPrevio(d, valor) ==
    \A i \in 1..Len(d.filas) :
        /\ Celda(d, i, "Valor_Anterior") = ReferenciaEsperada(d, valor, i)
        /\ Celda(d, i, "MoM_%") =
              Fillna(Pct(Celda(d, i, valor), ReferenciaEsperada(d, valor, i)), 0)

\* C29: the MoM_% of a brand at month p is computed against that brand's
\* total for the calendar month p-1, and when the brand has no rows in month
\* p-1 the reference is missing rather than taken from an earlier month.
C29_ReferenciaMesPrevio ==
    mpc = "fin" =>
        /\ ReferenciaMesPrevio(imp_agg, col_valor_imp)
        /\ ReferenciaMesPrevio(mat_agg, col_valor_mat)

-----------------------------------------------------------------------------
(* Outlier clipping, checked under SpecVariaciones *)

\* the three charts and the variation columns each one plots
Graficos == {<<"yoy", "YoY_Imp", "YoY_Mat">>, <<"mom", "MoM_Imp", "MoM_Mat">>,
             <<"qoq", "QoQ_Imp", "QoQ_Mat">>}

\* the variation table after the final cleaning, computed anew from the
\* frame handed in
TablaDeVariaciones == LimpiarColumnas(df_var, columnas_variacion)

\* C24: clipping of percentage changes is applied only when the caller asks
\* for it (crear_graficos_variaciones takes no such request, so no chart
\* plots a clipped value), and the variation table df_comp returned after the
\* charts are built holds the unclipped values.
C24_RecorteOpcional ==
    vpc = "devuelto" /\ TieneColumna(df_ret, "MoM_Imp") =>
        /\ df_ret = TablaDeVariaciones
        /\ \A g \in Graficos :
              graficos[g[1]] # SinGrafico =>
                  /\ Columna(graficos[g[1]], g[2]) = Columna(df_ret, g[2])
                  /\ Columna(graficos[g[1]], g[3]) = Columna(df_ret, g[3])

-----------------------------------------------------------------------------
(* Repeated evaluation of the year-over-year comparison, checked under
   SpecReevaluacion *)

\* the section has been evaluated a second time to its end
Reevaluada == ypc = "grafico" /\ evaluacion_previa # SinEvaluacion

\* the second evaluation produced what the first one did
MismaEvaluacion ==
    /\ imp_comparacion = evaluacion_previa.imp_comparacion
    /\ mat_comparacion = evaluacion_previa.mat_comparacion
    /\ top_marcas_grafico = evaluacion_previa.top_marcas_grafico

\* C25: two evaluations on the same tables with the same selected year and
\* month produce identical results, including the row order of the YoY
\* comparison tables and the set and order of the top-10 brands.
C25_Determinista == Reevaluada => MismaEvaluacion

-----------------------------------------------------------------------------
(* The ten largest brands, checked under SpecMarcas *)

TopCalculado == tpc \in {"chinos", "fin"}

\* the brands a series names
MarcasDeSerie(serie) == {serie[k][1] : k \in 1..Len(serie)}

\* C22: top-N by brand returns the brands' summed amounts in descending
\* order of total, truncated to the first 10: every returned brand's total is
\* the sum of all its rows' amounts, and no omitted brand has a total
\* strictly greater than a returned one.
C22_TopMarcas ==
    TopCalculado =>
        LET marcas == MarcasDe(datos_imp)
        IN  /\ Len(imp_por_marca) = IF Cardinality(marcas) < 10 THEN Cardinality(marcas) ELSE 10
            /\ \A k \in 1..Len(imp_por_marca) :
                  /\ imp_por_marca[k][1] \in marcas
                  /\ imp_por_marca[k][2] = TotalDe(datos_imp, "Valor", imp_por_marca[k][1])
                  /\ \A j \in 1..(k - 1) :
                        /\ imp_por_marca[j][1] # imp_por_marca[k][1]
                        /\ imp_por_marca[j][2] >= imp_por_marca[k][2]
                  /\ \A m \in marcas \ MarcasDeSerie(imp_por_marca) :
                        ~(TotalDe(datos_imp, "Valor", m) > imp_por_marca[k][2])

\* C22 witness: twelve brands, ten returned, the first one with the sum of
\* its two rows, and an omitted brand whose total equals the last returned one
C22_Testigo ==
    /\ tpc = "fin"
    /\ Cardinality(MarcasDe(datos_imp)) = 12
    /\ Len(imp_por_marca) = 10
    /\ imp_por_marca[1] = <<M_CHERY, 140>>
    /\ \E m \in MarcasDe(datos_imp) \ MarcasDeSerie(imp_por_marca) :
          TotalDe(datos_imp, "Valor", m) = imp_por_marca[10][2]

\* C23: top-N by brand is invariant under reordering of the input rows,
\* including when several brands have equal totals: the selected brands and
\* their order are identical.
C23_InvarianteAlOrden ==
    TopCalculado /\ imp_por_marca_previo # SinSerie =>
        imp_por_marca = imp_por_marca_previo

\* C23 witness: the eleven-brand table read in reverse order, with two
\* returned brands of equal totals, gave the same ten brands again
C23_Testigo ==
    /\ tpc = "fin"
    /\ imp_por_marca_previo # SinSerie
    /\ datos_imp.filas[Len(datos_imp.filas)] = <<Txt(M_NISSAN), Num(80)>>
    /\ Len(imp_por_marca) = 10
    /\ imp_por_marca = imp_por_marca_previo
    /\ \E k \in 1..9 : imp_por_marca[k][2] = imp_por_marca[k + 1][2]

-----------------------------------------------------------------------------
(* The Chinese competitors of the Highlights payload, checked under SpecMarcas *)

\* the competitors of the list, as the loader persists a brand, that have
\* rows in the filtered data
CompetidoresConRegistros ==
    {m \in MarcasDe(datos_imp) :
        \E k \in 1..Len(marcas_chinas) : m = Upper(Strip(marcas_chinas[k]))}

\* the sum of the totals of a set of brands
RECURSIVE TotalDeMarcas(_)
TotalDeMarcas(marcas) ==
    IF marcas = {} THEN 0
    ELSE LET m == CHOOSE x \in marcas : TRUE
         IN  TotalDe(datos_imp, "Valor", m) + TotalDeMarcas(marcas \ {m})

\* C30: competencia_china and participacion_chinos_imp include the total of
\* every brand of the competitor list that has records in the filtered data,
\* the persisted brands being trimmed and upper-cased.
C30_CompetidoresIncluidos ==
    tpc = "fin" =>
        /\ \A m \in CompetidoresConRegistros :
              \E k \in 1..Len(comp_chinos_imp) :
                  comp_chinos_imp[k] = <<m, TotalDe(datos_imp, "Valor", m)>>
        /\ TotalDeMarcas(MarcasDe(datos_imp)) > 0 =>
              participacion_chinos_imp =
                  Participacion(TotalDeMarcas(CompetidoresConRegistros),
                                TotalDeMarcas(MarcasDe(datos_imp)))

-----------------------------------------------------------------------------
(* The filters of two pages, checked under SpecFiltros *)

\* the rows with inicio <= date <= fin whose brand is selected
FilasSeleccionadas ==
    SelectSeq(imp_tabla.filas,
        LAMBDA f : /\ f[1].n >= rango_fechas.inicio
                   /\ f[1].n <= rango_fechas.fin
                   /\ f[2].s \in marcas_seleccionadas)

\* C28: for identical date range and brand selection, the Resumen General
\* filter and the Comparativos Temporales filter select the same rows:
\* exactly those with start <= date <= end, bounds included, and brand in
\* the selected set, also when the selected set is empty.
C28_MismoFiltro ==
    fpc = "fin" =>
        /\ imp_filtrado_resumen.filas = FilasSeleccionadas
        /\ imp_filtrado_comparativos.filas = FilasSeleccionadas

-----------------------------------------------------------------------------
(* The database file and its download, checked under SpecArranque *)

\* C26: on a run that starts with no automotor.db, the download is performed
\* before any attempt to open the database or read its tables (so that the
\* run, or the next one, loads both tables and the app is never left with a
\* file without tables that it no longer tries to download).
C26_DescargaAntesDeAbrir ==
    inicio_sin_archivo =>
        \A i \in 1..Len(eventos) :
            eventos[i] = "abrir" => \E j \in 1..(i - 1) : eventos[j] = "descargar"

\* C27: automotor.db is only ever written by descargar_db, when it does not
\* exist yet, and only with the body of a successful (2xx) download: a
\* failed or error response never creates or overwrites the file, for both
\* definitions of descargar_db.
C27_SoloDescargaEscribe ==
    [][automotor_db' \notin {automotor_db, "ausente"} =>
          /\ apc \in {"descargar", "descargar2"}
          /\ automotor_db = "ausente"
          /\ respuesta.llega /\ EsOk(respuesta)
          /\ automotor_db' = respuesta.cuerpo]_vars

====
